---- MODULE Spec2Model ----
(***************************************************************************)
(* Resumable streaming batch pipeline of llmhaloc: the byte-surgical JSON  *)
(* array writer, the resume state store with its retry ledger, and the     *)
(* batch drivers (model pipeline with bounded retries and sentinel rows,   *)
(* the simpler model pipeline without retries, and the per-file relevance  *)
(* pipeline).                                                              *)
(*                                                                         *)
(* Modelling conventions                                                   *)
(*  - a file on disk is a sequence of length <= 1: << >> is "no such file",*)
(*    << c >> is a file with content c;                                    *)
(*  - an optional dict key is a sequence of length <= 1 as well: << >> is  *)
(*    "key not in the dict", << v >> is the key with value v;              *)
(*  - a text file is a sequence of tokens [ch, obj]: one token per         *)
(*    structural character, and one token for a whole json.dumps(entry);   *)
(*  - the identity key (id, sub_id, code_id) of a record is one integer.   *)
(***************************************************************************)
EXTENDS Integers, Sequences, FiniteSets, TLC

\* ------------------------------------------------------------------ bounds
MaxRecords == 2
MaxRetriesCfg == 4
MaxRuns == 2
MaxAppends == 4
MaxEntryKinds == 3
MaxFuncRuns == 3
MaxReview == 2
MaxReviewRuns == 1
MaxProgress == 1
MaxText == 6
MaxOutCalls == 4
MaxDuration == 2
MaxElapsed == 1
MaxSaves == 2
MaxDecision == 2
MaxLabelRecords == 1
MaxStarts == 2

\* -------------------------------------------------------- program constants
\* "max_retries = 3  # Default max retries" in is_model_completed
DEFAULT_MAX_RETRIES == 3

\* ------------------------------------------------------------ dict helpers
\* dict.get(key, default) on an optional key
DictGet(opt, default) == IF opt = << >> THEN default ELSE opt[1]

\* os.path.exists(path)
path_exists(f) == f # << >>

\* os.path.getsize(path)
getsize(f) == Len(f[1])

\* ------------------------------------------------------- file tokens, JSON
\* one structural character of a text file
Ch(c) == [ch |-> c, obj |-> << >>]

\* json.dumps(new_entry, indent=4): the serialised entry, one token
json_dumps(entry) == [ch |-> "{", obj |-> <<entry>>]

IsWhitespace(t) == t.ch = "\n"

IsNotWhitespace(t) == ~IsWhitespace(t)

\* json.load(file) of a result file: the parsed list, or a JSONDecodeError.
\* Grammar of an array: "[" ws ( value ( ws "," ws value )* )? ws "]".
json_load(content) ==
    LET s == SelectSeq(content, IsNotWhitespace)
        n == Len(s)
        bad == [ok |-> FALSE, data |-> << >>]
    IN  IF n < 2 THEN bad
        ELSE IF s[1].ch # "[" \/ s[n].ch # "]" THEN bad
        ELSE IF n = 2 THEN [ok |-> TRUE, data |-> << >>]
        ELSE IF (n - 2) % 2 = 1
                /\ \A i \in 2..(n - 1) :
                       IF i % 2 = 0 THEN s[i].ch = "{" ELSE s[i].ch = ","
             THEN [ok |-> TRUE,
                   data |-> [i \in 1..((n - 1) \div 2) |-> s[2 * i].obj[1]]]
             ELSE bad

\* ------------------------------------------- byte-surgical writer (model)
\* a writer that never puts a comma before the appended object
needs_comma_never(char) == FALSE

\* needs_comma = char != '[' where char is the character before the final ]
needs_comma(char) == char.ch # "["

\* write_to_json(new_entry, model_name, result_dir) on the result file f:
\* [raised, file] where raised is the ValueError of a malformed file.
write_to_json(new_entry, f) ==
    LET entry_json == json_dumps(new_entry)
    IN  IF ~path_exists(f) \/ getsize(f) = 0
        THEN [raised |-> FALSE,
              file |-> << <<Ch("["), Ch("\n"), entry_json, Ch("\n"), Ch("]")>> >>]
        ELSE LET content == f[1]
                 end == Len(content)
             IN  IF content[end].ch # "]"
                 THEN [raised |-> TRUE, file |-> f]
                 ELSE IF content[1].ch # "["
                 THEN [raised |-> TRUE, file |-> f]
                 ELSE LET char == content[end - 1]
                          sep == IF needs_comma(char)
                                 THEN <<Ch(","), Ch("\n")>>
                                 ELSE <<Ch("\n")>>
                      IN  [raised |-> FALSE,
                           file |-> << SubSeq(content, 1, end - 1) \o sep
                                       \o <<entry_json, Ch("\n"), Ch("]")>> >>]

\* ------------------------------- byte-surgical writer (relevance variant)
needs_comma_file(char) == char.ch # "["

\* write_to_json(new_entry, model_name, result_dir, input_file)
write_to_json_file(new_entry, f) ==
    LET entry_json == json_dumps(new_entry)
    IN  IF ~path_exists(f) \/ getsize(f) = 0
        THEN [raised |-> FALSE,
              file |-> << <<Ch("["), Ch("\n"), entry_json, Ch("\n"), Ch("]")>> >>]
        ELSE LET content == f[1]
                 end == Len(content)
             IN  IF content[end].ch # "]"
                 THEN [raised |-> TRUE, file |-> f]
                 ELSE IF content[1].ch # "["
                 THEN [raised |-> TRUE, file |-> f]
                 ELSE LET char == content[end - 1]
                          sep == IF needs_comma_file(char)
                                 THEN <<Ch(","), Ch("\n")>>
                                 ELSE <<Ch("\n")>>
                      IN  [raised |-> FALSE,
                           file |-> << SubSeq(content, 1, end - 1) \o sep
                                       \o <<entry_json, Ch("\n"), Ch("]")>> >>]

\* ------------------------------------------------------ resume state store
\* The resume file of a model job holds a dict with the optional keys index,
\* total, completed, last_processed (written by save_resume_point only) and
\* failed_entries, the retry ledger: a list of dicts with id and the optional
\* key retry_count.

\* get_resume_data(model_name, log_dir): the dict, or None (<< >>)
get_resume_data(resume_file) == resume_file

\* the ledger kept by save_resume_point: "existing_failed_entries"
existing_failed_entries(resume_file) ==
    IF path_exists(resume_file) THEN resume_file[1].failed_entries ELSE << >>

\* "completed": (index >= total)
completed_flag(index, total) == index >= total

\* save_resume_point(model_name, entry, index, total, log_dir, time_estimates)
\* (the driver never passes failed_entries, so the ledger is carried over)
save_resume_point(resume_file, id, index, total) ==
    << [last_processed |-> <<id>>,
        index |-> <<index>>,
        total |-> <<total>>,
        completed |-> <<completed_flag(index, total)>>,
        failed_entries |-> existing_failed_entries(resume_file)] >>

\* position of the first ledger entry with this key, 0 if there is none
ledger_find(failed_entries, id) ==
    IF \E i \in DOMAIN failed_entries : failed_entries[i].id = id
    THEN CHOOSE i \in DOMAIN failed_entries :
             /\ failed_entries[i].id = id
             /\ \A j \in 1..(i - 1) : failed_entries[j].id # id
    ELSE 0

\* the ledger entry add_failed_entry puts into the minimal structure it
\* creates when no resume data exists: failed_entry as built at the top of
\* the function, without a retry_count
first_failed_entry(id) == [id |-> id, retry_count |-> << >>]

\* a ledger update that rewrites the resume file from scratch
add_failed_entry_fresh(resume_file, id) ==
    << [last_processed |-> << >>,
        index |-> << >>,
        total |-> << >>,
        completed |-> << >>,
        failed_entries |-> << first_failed_entry(id) >>] >>

\* add_failed_entry(model_name, entry, log_dir, error_message)
add_failed_entry(resume_file, id) ==
    IF ~path_exists(resume_file)
    THEN << [last_processed |-> << >>,
             index |-> << >>,
             total |-> << >>,
             completed |-> << >>,
             failed_entries |-> << first_failed_entry(id) >>] >>
    ELSE LET resume_data == resume_file[1]
             failed_entries == resume_data.failed_entries
             at == ledger_find(failed_entries, id)
         IN  << [resume_data EXCEPT !.failed_entries =
                    IF at # 0
                    THEN [failed_entries EXCEPT ![at].retry_count =
                              << DictGet(@, 0) + 1 >>]
                    ELSE Append(failed_entries,
                                [id |-> id, retry_count |-> <<1>>])] >>

\* get_failed_entries(model_name, log_dir)
get_failed_entries(resume_file) == existing_failed_entries(resume_file)

\* the limit is_model_completed compares retry counts with
ledger_limit(max_retries) == DEFAULT_MAX_RETRIES

\* is_model_completed(model_name, data, result_dir, log_dir) as called by a
\* driver configured with max_retries: (completed, status_info)
is_model_completed(resume_file, max_retries) ==
    IF ~path_exists(resume_file)
    THEN [result |-> FALSE, completed |-> FALSE,
          max_retries_reached |-> 0, retryable_entries |-> 0]
    ELSE LET resume_data == resume_file[1]
             completed == DictGet(resume_data.completed, FALSE)
             failed_entries == resume_data.failed_entries
             reached == { i \in DOMAIN failed_entries :
                            DictGet(failed_entries[i].retry_count, 0)
                                >= ledger_limit(max_retries) }
             retryable == DOMAIN failed_entries \ reached
         IN  [result |-> completed /\ Cardinality(retryable) = 0,
              completed |-> completed,
              max_retries_reached |-> Cardinality(reached),
              retryable_entries |-> Cardinality(retryable)]

\* a resume lookup that ignores the persisted index
find_resume_point_zero(resume_file, result_file, data_len) ==
    [index |-> 0, file |-> result_file]

\* variant of find_resume_point that leaves an orphaned result file alone
find_resume_point_keep(resume_file, result_file, data_len) ==
    IF /\ path_exists(resume_file)
       /\ resume_file[1].index # << >>
       /\ 0 <= resume_file[1].index[1]
       /\ resume_file[1].index[1] <= data_len
    THEN [index |-> resume_file[1].index[1], file |-> result_file]
    ELSE [index |-> 0, file |-> result_file]

\* find_resume_point(model_name, data, result_dir, log_dir): the index to
\* resume from and the result file, which is reset to an empty array when it
\* has content but no valid resume index exists
find_resume_point(resume_file, result_file, data_len) ==
    IF /\ path_exists(resume_file)
       /\ resume_file[1].index # << >>
       /\ 0 <= resume_file[1].index[1]
       /\ resume_file[1].index[1] <= data_len
    THEN [index |-> resume_file[1].index[1], file |-> result_file]
    ELSE IF path_exists(result_file) /\ getsize(result_file) > 0
         THEN [index |-> 0, file |-> << <<Ch("["), Ch("\n"), Ch("]")>> >>]
         ELSE [index |-> 0, file |-> result_file]

\* -------------------------------------------------- model pipeline driver
\* args.max_retries reaches config['processing']['max_retries'] only when it
\* differs from 3; the driver reads the config with default 3
set_max_retries(arg) == IF arg # DEFAULT_MAX_RETRIES THEN arg ELSE DEFAULT_MAX_RETRIES

\* the row interact_with_llm returns for a record
llm_entry(id) == [id |-> id, response |-> "llm", total_duration |-> 1]

\* the row _handle_entry_error writes once the retries are used up
sentinel_entry(id) == [id |-> id, response |-> "", total_duration |-> 0]

\* "while retry_count <= max_retries and not success" (success is false here)
while_retry(retry_count, max_retries) == retry_count <= max_retries

\* a handler that writes the sentinel one failure too late
handler_gives_up_late(retry_count, max_retries) == retry_count > max_retries

\* "if retry_count >= max_retries" in _handle_entry_error: write the sentinel
handler_gives_up(retry_count, max_retries) == retry_count >= max_retries

\* "if retry_count >= max_retries: success = True" in _process_entry
entry_gives_up(retry_count, max_retries) == retry_count >= max_retries

\* ------------------------------------------------------------------ state
VARIABLES
    wVariant,      \* writer run: which write_to_json is exercised
    wFile,         \* writer run: the result file
    wAppended,     \* writer run: the entries of the successful calls, in order
    total,         \* model job: len(self.data); record idx has id idx + 1
    max_retries,   \* model job: config['processing']['max_retries']
    resumeFile,    \* model job: <log_dir>/resume_points/<model>_resume.json
    resultFile,    \* model job: <result_dir>/<model>.json
    errorFiles,    \* model job: ids with an <id>_<sub>_<code>.error file
    pc,            \* driver: "idle", "loop", "attempt" or "done"
    idx,           \* driver: index of the for loop over the stream
    retry_count,   \* driver: retry_count of _process_entry
    report,        \* driver: what process_model_streaming returned last
    runs,          \* number of runs started
    call,          \* history: the current or last _process_entry call
    failures,      \* history: add_failed_entry calls per id
    succeeded,     \* history: ids whose processing succeeded
    givenUp,       \* history: ids whose sentinel row was written
    kills,         \* history: [pc, idx] at each kill of the process
    job,           \* which pipeline the behaviour is about
    fResume,       \* relevance job: file_resume_points/<file>_<model>_resume.json
    fOutput,       \* relevance job: <result_dir>/<file name>
    fPc,           \* relevance driver: "idle", "loop" or "done"
    fIdx,          \* relevance driver: entry_idx of the loop over the file
    fRuns,         \* relevance driver: number of runs started
    sResume,       \* plain model job: resume_points/<model>_resume.json
    sResult,       \* plain model job: <result_dir>/<model>.json
    sPc,           \* plain model driver: "idle", "loop" or "done"
    sIdx,          \* plain model driver: idx of the loop over the stream
    sRuns,         \* plain model driver: number of runs started
    sReport,       \* plain model driver: what process_model_streaming returned
    gResume,       \* function job: resume_points/<file>_resume.json
    gOutput,       \* function job: <result_dir>/<file name>, the list of rows
    gPc,           \* function driver: "idle", "loop", "appended" or "done"
    gIdx,          \* function driver: position in ground_truth_data
    current_index, \* function driver: TimeEstimator.current_index
    gRuns,         \* function driver: number of runs started
    rvData,        \* reviewer: the records of the input file
    rvPos,         \* reviewer: number of records the batch thread is through
    rvPc,          \* reviewer: position of the batch thread
    rvRuns,        \* reviewer: number of processing threads started
    current_object,          \* reviewer: index of the published record
    user_decision,           \* reviewer: the decision mailbox
    processing_paused,       \* reviewer: the resumed-signal (Event is set)
    stop_processing,         \* reviewer: the stop Event is set
    is_processing,           \* reviewer: is_processing flag
    obj,                     \* reviewer: review fields of the record at rvPos
    decision_value,          \* reviewer: the decision the thread has read
    decision_stage,          \* function reviewer: published stage, 0 if None
    awaiting_user_decision,  \* function reviewer: awaiting flag
    out_f,         \* function reviewer: the output file handle is open
    rvOut,         \* reviewer: labels of the finalized records, in order
    applied,       \* history: decisions applied in this run
    mailFresh,     \* history: mailbox was filled during the present stage
    response,      \* history: last payload and what submit_decision answered
    progress,      \* Progress: the fields of the tracker
    lock,          \* Progress: holder of self.lock ("none", "update")
    upPc,          \* Progress.update: next field to write, 0 outside update
    upArgs,        \* Progress.update: the arguments of the running call
    snapshot,      \* history: what the last get() returned
    committed,     \* history: the fields after the last complete update
    file_text,     \* stream_json_data: the content of the input file
    stream_result, \* stream_json_data: what the generator yielded and raised
    oFile,         \* append_to_output: the output file, as tokens
    oRet,          \* append_to_output: outcome of the last call
    oCalls,        \* append_to_output: number of calls made
    times_file,    \* TimeEstimator: the persisted processing times of the file
    processing_times,        \* TimeEstimator: self.processing_times
    te,            \* get_estimates: the estimator object it is called on
    estimates,     \* get_estimates: what the call returned or raised
    rsFile,        \* ResumeState: the resume point file of the file
    rsObj,         \* ResumeState: what the last load_state gave, if any
    rsArgs,        \* history: arguments of the last save_state call
    rsPc,          \* history: "saved", "failed" or "loaded" after the calls
    rsSaves,       \* history: number of save_state calls
    ground_truth_data,       \* find_resume_index: the ground truth it scans
    rsFound,       \* find_resume_index: what the call returned, if made
    setPc,         \* set_user_decision: "idle", "written" or "unflagged"
    submitted,     \* history: calls begun since the stage was published
    ui_progress,   \* function UI: the fields of Progress get_progress reads
    processing_complete,  \* function UI: the global of main.py
    reported,      \* function UI: the flag of the last /progress answer
    alive,         \* web layer: number of batch threads that are alive
    answer         \* web layer: status of the last start or stop answer

writerVars == <<wVariant, wFile, wAppended>>

driverVars == <<total, max_retries, resumeFile, resultFile, errorFiles, pc,
                idx, retry_count, report, runs, call, failures, succeeded,
                givenUp, kills>>

relevanceVars == <<fResume, fOutput, fPc, fIdx, fRuns>>

plainVars == <<sResume, sResult, sPc, sIdx, sRuns, sReport>>

funcVars == <<gResume, gOutput, gPc, gIdx, current_index, gRuns, times_file,
              processing_times>>

reviewVars == <<rvData, rvPos, rvPc, rvRuns, current_object, user_decision,
                processing_paused, stop_processing, is_processing, obj,
                decision_value, decision_stage, awaiting_user_decision,
                out_f, rvOut, applied, mailFresh, response>>

progressVars == <<progress, lock, upPc, upArgs, snapshot, committed>>

streamVars == <<file_text, stream_result>>

appendVars == <<oFile, oRet, oCalls>>

estimateVars == <<te, estimates>>

resumeStateVars == <<rsFile, rsObj, rsArgs, rsPc, rsSaves>>

findVars == <<ground_truth_data, rsFound>>

awaitVars == <<setPc, submitted>>

completeVars == <<ui_progress, processing_complete, reported>>

threadVars == <<alive, answer>>

utilVars == <<findVars, awaitVars, completeVars, threadVars>>

toolVars == <<progressVars, streamVars, appendVars, estimateVars,
             resumeStateVars, utilVars>>

vars == <<wVariant, wFile, wAppended, total, max_retries, resumeFile,
          resultFile, errorFiles, pc, idx, retry_count, report, runs, call,
          failures, succeeded, givenUp, kills, job, fResume, fOutput, fPc,
          fIdx, fRuns, sResume, sResult, sPc, sIdx, sRuns, sReport, gResume,
          gOutput, gPc, gIdx, current_index, gRuns, times_file,
          processing_times, rvData, rvPos, rvPc,
          rvRuns, current_object, user_decision, processing_paused,
          stop_processing, is_processing, obj, decision_value,
          decision_stage, awaiting_user_decision, out_f, rvOut, applied,
          mailFresh, response, toolVars>>

\* the state of the model job before the first run: no file exists
DriverStart(n, m) ==
    /\ total = n
    /\ max_retries = m
    /\ resumeFile = << >>
    /\ resultFile = << >>
    /\ errorFiles = {}
    /\ pc = "idle"
    /\ idx = 0
    /\ retry_count = 0
    /\ report = "none"
    /\ runs = 0
    /\ call = [id |-> 0, attempts |-> 0, allFailed |-> TRUE, rows |-> << >>,
               finished |-> FALSE]
    /\ failures = [k \in 1..MaxRecords |-> 0]
    /\ succeeded = {}
    /\ givenUp = {}
    /\ kills = << >>

\* the writer run is not part of the model job
WriterStart ==
    /\ wVariant = "model"
    /\ wFile = << >>
    /\ wAppended = << >>

\* the relevance job and the plain model job before their first run
PlainStart ==
    /\ fResume = << >>
    /\ fOutput = << >>
    /\ fPc = "idle"
    /\ fIdx = 0
    /\ fRuns = 0
    /\ sResume = << >>
    /\ sResult = << >>
    /\ sPc = "idle"
    /\ sIdx = 0
    /\ sRuns = 0
    /\ sReport = "none"

\* the function-analysis job before its first run
FuncStartState ==
    /\ gResume = << >>
    /\ gOutput = << >>
    /\ gPc = "idle"
    /\ gIdx = 0
    /\ current_index = 0
    /\ gRuns = 0
    /\ times_file = << >>
    /\ processing_times = << >>

\* the review fields _process_json_object gives a record
fresh_obj(analysis_label) ==
    [analysis_label |-> analysis_label,
     review_stage |-> 1,
     label |-> << >>,
     user_decision_round1 |-> << >>,
     user_decision_round2 |-> << >>]

\* the reviewer after construction of the processor, for the input records d
ReviewStartState(d) ==
    /\ rvData = d
    /\ rvPos = 0
    /\ rvPc = "idle"
    /\ rvRuns = 0
    /\ current_object = << >>
    /\ user_decision = << >>
    /\ processing_paused = FALSE
    /\ stop_processing = FALSE
    /\ is_processing = FALSE
    /\ obj = fresh_obj(<< >>)
    /\ decision_value = << >>
    /\ decision_stage = 0
    /\ awaiting_user_decision = FALSE
    /\ out_f = FALSE
    /\ rvOut = << >>
    /\ applied = << >>
    /\ mailFresh = FALSE
    /\ response = [status |-> "none", type |-> "", text |-> ""]

\* the progress fields a call of update can pass
progress_args(fp, tp, top) ==
    [file_progress |-> fp, total_progress |-> tp,
     total_objects_processed |-> top]

\* Progress.__init__
ProgressStart ==
    /\ progress = progress_args(0, 0, 0)
    /\ lock = "none"
    /\ upPc = 0
    /\ upArgs = progress_args(0, 0, << >>)
    /\ snapshot = << >>
    /\ committed = progress_args(0, 0, 0)

\* no input file read yet
StreamStart ==
    /\ file_text = << >>
    /\ stream_result = << >>

\* no output file yet
AppendStart ==
    /\ oFile = << >>
    /\ oRet = "none"
    /\ oCalls = 0

\* no estimator object, no call made
EstimateStart ==
    /\ te = << >>
    /\ estimates = << >>

\* no resume point file, no ResumeState object
ResumeStateStart ==
    /\ rsFile = << >>
    /\ rsObj = << >>
    /\ rsArgs = << >>
    /\ rsPc = "idle"
    /\ rsSaves = 0

\* no ground truth loaded, find_resume_index not called
FindStart ==
    /\ ground_truth_data = << >>
    /\ rsFound = << >>

\* no set_user_decision call is under way
AwaitStart ==
    /\ setPc = "idle"
    /\ submitted = 0

\* the fields of Progress that update(file_progress, total_progress,
\* current_file_index, total_files, ...) sets and get_progress tests
progress_fields(file_progress, current_file_index, total_files) ==
    [file_progress |-> file_progress,
     current_file_index |-> current_file_index,
     total_files |-> total_files]

\* Progress.__init__ and the globals of main.py; no /progress answer yet
CompleteStart ==
    /\ ui_progress = progress_fields(0, 0, 0)
    /\ processing_complete = FALSE
    /\ reported = << >>

\* "processing_thread = None" of main.py; no request answered yet
ThreadStart ==
    /\ alive = 0
    /\ answer = "none"

\* the remaining utilities before their first call
UtilStart ==
    /\ FindStart
    /\ AwaitStart
    /\ CompleteStart
    /\ ThreadStart

\* the utilities before their first call
ToolStart ==
    /\ ProgressStart
    /\ StreamStart
    /\ AppendStart
    /\ EstimateStart
    /\ ResumeStateStart
    /\ UtilStart

\* a job of 1..MaxRecords records, max_retries from --max-retries
Init ==
    /\ job = "model"
    /\ WriterStart
    /\ PlainStart
    /\ FuncStartState
    /\ ReviewStartState(<< >>)
    /\ ToolStart
    /\ \E n \in 1..MaxRecords, arg \in 0..MaxRetriesCfg :
           DriverStart(n, set_max_retries(arg))

\* id of the record the for loop is at
entry_id == idx + 1

\* variant of the run start that never skips a completed job
StartRunNoSkip ==
    /\ pc = "idle"
    /\ runs < MaxRuns
    /\ runs' = runs + 1
    /\ LET start == find_resume_point(resumeFile, resultFile, total)
       IN  /\ resultFile' = start.file
           /\ idx' = start.index
           /\ pc' = "loop"
           /\ report' = "none"
    /\ UNCHANGED <<total, max_retries, resumeFile, errorFiles, retry_count,
                   call, failures, succeeded, givenUp, kills>>

\* process_model_streaming up to the for loop: _check_model_completion, then
\* find_resume_point; the stream is iterated from 0 and skipped up to start_idx
StartRun ==
    /\ pc = "idle"
    /\ runs < MaxRuns
    /\ runs' = runs + 1
    /\ IF is_model_completed(resumeFile, max_retries).result
       THEN /\ pc' = "done"
            /\ report' = "SKIPPED"
            /\ UNCHANGED <<resultFile, idx>>
       ELSE LET start == find_resume_point(resumeFile, resultFile, total)
            IN  /\ resultFile' = start.file
                /\ idx' = start.index
                /\ pc' = "loop"
                /\ report' = "none"
    /\ UNCHANGED <<total, max_retries, resumeFile, errorFiles, retry_count,
                   call, failures, succeeded, givenUp, kills>>

\* _process_entry up to its while loop, for the next record of the stream
BeginEntry ==
    /\ pc = "loop"
    /\ idx < total
    /\ retry_count' = 0
    /\ pc' = "attempt"
    /\ call' = [id |-> entry_id, attempts |-> 0, allFailed |-> TRUE,
                rows |-> << >>, finished |-> FALSE]
    /\ UNCHANGED <<total, max_retries, resumeFile, resultFile, errorFiles,
                   idx, report, runs, failures, succeeded, givenUp, kills>>

\* _process_entry_attempt returns: the row is written, the resume point is
\* saved with idx + 1, the error file is deleted; the while loop ends and the
\* for loop moves on
AttemptSucceeds ==
    /\ pc = "attempt"
    /\ while_retry(retry_count, max_retries)
    /\ LET w == write_to_json(llm_entry(entry_id), resultFile)
       IN  /\ ~w.raised
           /\ resultFile' = w.file
    /\ resumeFile' = save_resume_point(resumeFile, entry_id, idx + 1, total)
    /\ errorFiles' = errorFiles \ {entry_id}
    /\ idx' = idx + 1
    /\ pc' = "loop"
    /\ call' = [call EXCEPT !.attempts = @ + 1, !.allFailed = FALSE,
                            !.rows = Append(@, llm_entry(entry_id)),
                            !.finished = TRUE]
    /\ succeeded' = succeeded \cup {entry_id}
    /\ UNCHANGED <<total, max_retries, retry_count, report, runs, failures,
                   givenUp, kills>>

\* a driver in which a failing attempt ends the whole run
AttemptRaisesAborts ==
    /\ pc = "attempt"
    /\ while_retry(retry_count, max_retries)
    /\ pc' = "done"
    /\ call' = [call EXCEPT !.attempts = @ + 1, !.finished = TRUE]
    /\ UNCHANGED <<total, max_retries, resumeFile, resultFile, errorFiles,
                   idx, retry_count, report, runs, failures, succeeded,
                   givenUp, kills>>

\* _process_entry_attempt raises (the LLM call fails): retry_count += 1 and
\* _handle_entry_error writes the error file, calls add_failed_entry and, once
\* the retries are used up, writes the sentinel row; _process_entry then
\* either counts the record as done or goes round the while loop again
AttemptRaises ==
    /\ pc = "attempt"
    /\ while_retry(retry_count, max_retries)
    /\ retry_count' = retry_count + 1
    /\ errorFiles' = errorFiles \cup {entry_id}
    /\ resumeFile' = add_failed_entry(resumeFile, entry_id)
    /\ failures' = [failures EXCEPT ![entry_id] = @ + 1]
    /\ LET sentinel == handler_gives_up(retry_count', max_retries)
           w == write_to_json(sentinel_entry(entry_id), resultFile)
           done == entry_gives_up(retry_count', max_retries)
       IN  /\ resultFile' = IF sentinel THEN w.file ELSE resultFile
           /\ givenUp' = IF sentinel /\ ~w.raised
                         THEN givenUp \cup {entry_id} ELSE givenUp
           /\ call' = [call EXCEPT
                          !.attempts = @ + 1,
                          !.rows = IF sentinel /\ ~w.raised
                                   THEN Append(@, sentinel_entry(entry_id))
                                   ELSE @,
                          !.finished = done]
           /\ IF sentinel /\ w.raised
              THEN /\ pc' = "idle"
                   /\ idx' = 0
              ELSE IF done
              THEN /\ pc' = "loop"
                   /\ idx' = idx + 1
              ELSE /\ pc' = "attempt"
                   /\ idx' = idx
    /\ UNCHANGED <<total, max_retries, report, runs, succeeded, kills>>

\* the stream is exhausted: _report_completion_status
FinishRun ==
    /\ pc = "loop"
    /\ idx >= total
    /\ report' = IF is_model_completed(resumeFile, max_retries).result
                 THEN "COMPLETED" ELSE "INCOMPLETE"
    /\ pc' = "done"
    /\ UNCHANGED <<total, max_retries, resumeFile, resultFile, errorFiles,
                   idx, retry_count, runs, call, failures, succeeded, givenUp,
                   kills>>

\* the process is killed while the driver runs; the files stay as they are
Kill ==
    /\ pc \in {"loop", "attempt"}
    /\ kills' = Append(kills, [pc |-> pc, idx |-> idx])
    /\ pc' = "idle"
    /\ idx' = 0
    /\ retry_count' = 0
    /\ UNCHANGED <<total, max_retries, resumeFile, resultFile, errorFiles,
                   report, runs, call, failures, succeeded, givenUp>>

\* the process ends after process_model_streaming returned
Exit ==
    /\ pc = "done"
    /\ pc' = "idle"
    /\ idx' = 0
    /\ retry_count' = 0
    /\ UNCHANGED <<total, max_retries, resumeFile, resultFile, errorFiles,
                   report, runs, call, failures, succeeded, givenUp, kills>>

Next ==
    \/ StartRun /\ UNCHANGED <<job, writerVars, relevanceVars, plainVars, funcVars, reviewVars, toolVars>>
    \/ BeginEntry /\ UNCHANGED <<job, writerVars, relevanceVars, plainVars, funcVars, reviewVars, toolVars>>
    \/ AttemptSucceeds /\ UNCHANGED <<job, writerVars, relevanceVars, plainVars, funcVars, reviewVars, toolVars>>
    \/ AttemptRaises /\ UNCHANGED <<job, writerVars, relevanceVars, plainVars, funcVars, reviewVars, toolVars>>
    \/ FinishRun /\ UNCHANGED <<job, writerVars, relevanceVars, plainVars, funcVars, reviewVars, toolVars>>
    \/ Kill /\ UNCHANGED <<job, writerVars, relevanceVars, plainVars, funcVars, reviewVars, toolVars>>
    \/ Exit /\ UNCHANGED <<job, writerVars, relevanceVars, plainVars, funcVars, reviewVars, toolVars>>

Spec == Init /\ [][Next]_vars

\* ------------------------------------------------- claims, model pipeline
\* the result file exists and json.load accepts it
OutputParses == path_exists(resultFile) /\ json_load(resultFile[1]).ok

\* the rows of the result file
OutputRows == json_load(resultFile[1]).data

\* positions of the rows with identity key k
RowsOf(k) == { i \in DOMAIN OutputRows : OutputRows[i].id = k }

\* every record of the job has exactly one row, no key twice, none missing
ExactlyOnePerRecord ==
    /\ OutputParses
    /\ Len(OutputRows) = total
    /\ \A k \in 1..total : Cardinality(RowsOf(k)) = 1

\* the ledger entries of key k
LedgerOf(k) ==
    { i \in DOMAIN get_failed_entries(resumeFile) :
          get_failed_entries(resumeFile)[i].id = k }

\* a ledger entry that counts as retryable for the configured max_retries
Retryable(e) == DictGet(e.retry_count, 0) < max_retries

\* C1: a run killed once between two records (k records handled, 0 < k < N,
\* record k succeeded or given up) and then restarted ends with the same
\* output as an uninterrupted run: exactly one row per record key.
C1_ResumeIdempotent ==
    /\ (pc = "done" /\ runs = 1 /\ kills = << >>) => ExactlyOnePerRecord
    /\ ( /\ pc = "done"
         /\ runs = 2
         /\ Len(kills) = 1
         /\ kills[1].pc = "loop"
         /\ 0 < kills[1].idx
         /\ kills[1].idx < total ) => ExactlyOnePerRecord

C3_NoReattempt == pc = "attempt" => entry_id \notin givenUp

\* C4: after a record has failed n times the ledger holds exactly one entry
\* for its key, with retry_count = n, whether or not a resume file existed
\* before the first failure.
C4_LedgerCounts ==
    \A k \in 1..total :
        failures[k] > 0 =>
            /\ Cardinality(LedgerOf(k)) = 1
            /\ \A i \in LedgerOf(k) :
                   get_failed_entries(resumeFile)[i].retry_count
                       = << failures[k] >>

\* C6: in every persisted resume state, completed is true if and only if
\* index >= total and no failed entry has retry_count < max_retries.
C6_CompletedIff ==
    path_exists(resumeFile) =>
        LET resume_data == resumeFile[1]
        IN  DictGet(resume_data.completed, FALSE)
            <=> ( /\ resume_data.index # << >>
                  /\ resume_data.index[1] >= total
                  /\ \A i \in DOMAIN resume_data.failed_entries :
                         ~Retryable(resume_data.failed_entries[i]) )

\* C7: is_model_completed returns true only if the completed flag is set and
\* no failed entry has a retry_count below the configured max_retries.
C7_CompletedOnlyIf ==
    is_model_completed(resumeFile, max_retries).result =>
        /\ DictGet(resumeFile[1].completed, FALSE)
        /\ \A i \in DOMAIN resumeFile[1].failed_entries :
               ~Retryable(resumeFile[1].failed_entries[i])

\* C8: after going through all records the driver reports INCOMPLETE only if
\* some record is still unresolved (neither succeeded nor given up) with
\* retry_count < max_retries.
C8_IncompleteOnlyIfUnresolved ==
    (pc = "done" /\ report = "INCOMPLETE") =>
        \E k \in 1..total :
            /\ k \notin succeeded \cup givenUp
            /\ \A i \in LedgerOf(k) :
                   Retryable(get_failed_entries(resumeFile)[i])

\* C9: after a record that had failed fewer than max_retries times is
\* processed successfully, the ledger holds no retryable entry for its key.
C9_LedgerClearedOnSuccess ==
    \A k \in succeeded :
        \A i \in LedgerOf(k) :
            ~Retryable(get_failed_entries(resumeFile)[i])

\* the character written where the final ] of the old content stood
comma_written(old, new) == new[Len(old)].ch = ","

\* C11: whenever write_to_json appends to a well-formed array file the
\* pipeline left on disk (the empty array written by find_resume_point
\* included), it writes a separating comma if and only if the array is
\* non-empty.
C11_CommaIffNonEmpty ==
    [][ ( /\ pc = "attempt"
          /\ path_exists(resultFile)
          /\ getsize(resultFile) > 0
          /\ json_load(resultFile[1]).ok
          /\ resultFile' # resultFile )
        => ( comma_written(resultFile[1], resultFile'[1])
             <=> Len(json_load(resultFile[1]).data) > 0 ) ]_vars

\* C12: a run that starts while the persisted resume index is i enters the
\* loop at index i, the loop index never goes down within a run, and the
\* record attempted is the one at the loop index: record i is attempted
\* first and no record with a lower index is attempted.
C12_ResumesAtIndex ==
    [][ /\ ( /\ pc = "idle"
             /\ pc' = "loop"
             /\ path_exists(resumeFile)
             /\ resumeFile[1].index # << >> )
           => idx' = resumeFile[1].index[1]
        /\ (pc \in {"loop", "attempt"} /\ pc' \in {"loop", "attempt"})
           => idx' >= idx
        /\ (pc = "loop" /\ pc' = "attempt")
           => (idx' = idx /\ call'.id = idx + 1) ]_vars

C12_Witness ==
    /\ runs = 2
    /\ Len(kills) = 1
    /\ pc = "attempt"
    /\ idx = 1
    /\ path_exists(resumeFile)
    /\ resumeFile[1].index = <<1>>
    /\ call.id = 2
    /\ call.attempts = 0

\* C14: a failing attempt never ends the run: unless the process is killed,
\* the driver either tries the record again or moves on to the next index,
\* and a run only ends after the loop has passed every index.
C14_FailureNeverAborts ==
    [][ /\ (pc = "attempt" /\ kills' = kills)
           => (pc' = "attempt" \/ (pc' = "loop" /\ idx' = idx + 1))
        /\ (pc = "loop" /\ pc' = "done") => idx >= total ]_vars

C14_Witness ==
    /\ runs = 1
    /\ kills = << >>
    /\ 1 \in givenUp
    /\ pc = "attempt"
    /\ idx = 1
    /\ call.id = 2

\* C25: when a run of the model pipeline starts on a result file that has
\* content while the resume file holds no index within 0..len(data), the run
\* begins at index 0 on a result file reset to an empty array: no row of the
\* orphaned file is left in it.
C25_OrphanReset ==
    [][(/\ pc = "idle"
        /\ pc' = "loop"
        /\ path_exists(resultFile)
        /\ getsize(resultFile) > 0
        /\ ~(/\ path_exists(resumeFile)
             /\ resumeFile[1].index # << >>
             /\ resumeFile[1].index[1] \in 0..total))
       => /\ idx' = 0
          /\ json_load(resultFile'[1]).ok
          /\ json_load(resultFile'[1]).data = << >>]_vars

C25_Witness ==
    /\ runs = 2
    /\ pc = "loop"
    /\ idx = 0
    /\ resultFile = << <<Ch("["), Ch("\n"), Ch("]")>> >>
    /\ \E k \in 1..total : k \in succeeded \/ k \in givenUp

has_index(f) == path_exists(f) /\ f[1].index # << >>

persisted_index ==
    IF has_index(resumeFile) THEN resumeFile[1].index[1] ELSE 0

\* the number of rows in the result file: 0 without one
row_count == IF path_exists(resultFile) THEN Len(OutputRows) ELSE 0

\* C38: model-pipeline driver: whenever the driver is between two records
\* the number of rows in the result file equals the persisted resume index.
C38_RowsEqualResumeIndex ==
    (pc = "loop" /\ (path_exists(resultFile) => OutputParses))
        => row_count = persisted_index

\* ---------------------------------------- relevance pipeline (per file)
\* save_file_resume_point(input_file, model_name, entry_idx, total_entries, log_dir)
save_file_resume_point(entry_idx, total_entries) ==
    << [entry_index |-> entry_idx,
        total_entries |-> total_entries,
        completed |-> entry_idx >= total_entries] >>

\* get_file_resume_point(input_file, model_name, log_dir)
get_file_resume_point(resume_file) ==
    IF path_exists(resume_file)
    THEN LET entry_idx == resume_file[1].entry_index
             total_entries == resume_file[1].total_entries
         IN  IF entry_idx > 0 /\ entry_idx < total_entries THEN entry_idx
             ELSE IF entry_idx >= total_entries THEN total_entries
             ELSE 0
    ELSE 0

\* is_file_processed(input_file, model_name, output_dir, log_dir)
is_file_processed(resume_file, output_file) ==
    IF path_exists(resume_file) /\ resume_file[1].completed
    THEN TRUE
    ELSE IF path_exists(output_file) /\ getsize(output_file) > 0
    THEN LET loaded == json_load(output_file[1])
         IN  /\ loaded.ok
             /\ Len(loaded.data) > 0
             /\ path_exists(resume_file)
             /\ resume_file[1].total_entries > 0
             /\ Len(loaded.data) >= resume_file[1].total_entries
    ELSE FALSE

\* process_directory for one input file, up to the loop over its entries
FileStart ==
    /\ job = "relevance"
    /\ fPc = "idle"
    /\ fRuns < MaxRuns
    /\ fRuns' = fRuns + 1
    /\ IF path_exists(fOutput) /\ is_file_processed(fResume, fOutput)
       THEN /\ fPc' = "done"
            /\ fIdx' = fIdx
       ELSE /\ fPc' = "loop"
            /\ fIdx' = get_file_resume_point(fResume)
    /\ UNCHANGED <<fResume, fOutput>>

\* the try block of an entry runs through: row written, resume point saved
FileEntryDone ==
    /\ job = "relevance"
    /\ fPc = "loop"
    /\ fIdx < total
    /\ LET w == write_to_json_file(llm_entry(fIdx + 1), fOutput)
       IN  /\ ~w.raised
           /\ fOutput' = w.file
    /\ fResume' = save_file_resume_point(fIdx + 1, total)
    /\ fIdx' = fIdx + 1
    /\ UNCHANGED <<fPc, fRuns>>

\* the try block of an entry raises: the error is logged, "continue"
FileEntryRaises ==
    /\ job = "relevance"
    /\ fPc = "loop"
    /\ fIdx < total
    /\ fIdx' = fIdx + 1
    /\ UNCHANGED <<fResume, fOutput, fPc, fRuns>>

\* after the loop: "Mark file as completed"
FileFinish ==
    /\ job = "relevance"
    /\ fPc = "loop"
    /\ fIdx >= total
    /\ fResume' = save_file_resume_point(total, total)
    /\ fPc' = "done"
    /\ UNCHANGED <<fOutput, fIdx, fRuns>>

\* the process is killed inside the loop
FileKill ==
    /\ job = "relevance"
    /\ fPc = "loop"
    /\ fPc' = "idle"
    /\ fIdx' = 0
    /\ UNCHANGED <<fResume, fOutput, fRuns>>

\* the process ends after process_directory returned
FileExit ==
    /\ job = "relevance"
    /\ fPc = "done"
    /\ fPc' = "idle"
    /\ fIdx' = 0
    /\ UNCHANGED <<fResume, fOutput, fRuns>>

\* ------------------------------------- plain model pipeline (no retries)
\* save_resume_point of the store without a ledger
save_resume_point_plain(id, index, total_entries) ==
    << [last_processed |-> id,
        index |-> index,
        total |-> total_entries,
        completed |-> index >= total_entries] >>

\* is_model_completed of the store without a ledger: the completed flag
is_model_completed_plain(resume_file) ==
    IF path_exists(resume_file) THEN resume_file[1].completed ELSE FALSE

\* find_resume_point of the store without a ledger
find_resume_point_plain(resume_file, data_len) ==
    IF /\ path_exists(resume_file)
       /\ 0 <= resume_file[1].index
       /\ resume_file[1].index <= data_len
    THEN resume_file[1].index
    ELSE 0

\* process_model_streaming up to the for loop
PlainStartRun ==
    /\ job = "plain"
    /\ sPc = "idle"
    /\ sRuns < MaxRuns
    /\ sRuns' = sRuns + 1
    /\ IF is_model_completed_plain(sResume)
       THEN /\ sPc' = "done"
            /\ sReport' = "SKIPPED"
            /\ sIdx' = sIdx
       ELSE /\ sPc' = "loop"
            /\ sReport' = "none"
            /\ sIdx' = find_resume_point_plain(sResume, total)
    /\ UNCHANGED <<sResume, sResult>>

\* the try block of an entry runs through
PlainEntryDone ==
    /\ job = "plain"
    /\ sPc = "loop"
    /\ sIdx < total
    /\ LET w == write_to_json(llm_entry(sIdx + 1), sResult)
       IN  /\ ~w.raised
           /\ sResult' = w.file
    /\ sResume' = save_resume_point_plain(sIdx + 1, sIdx + 1, total)
    /\ sIdx' = sIdx + 1
    /\ UNCHANGED <<sPc, sRuns, sReport>>

\* the try block of an entry raises: the error is logged, "continue"
PlainEntryRaises ==
    /\ job = "plain"
    /\ sPc = "loop"
    /\ sIdx < total
    /\ sIdx' = sIdx + 1
    /\ UNCHANGED <<sResume, sResult, sPc, sRuns, sReport>>

\* after the loop: is_model_completed decides what is reported
PlainFinish ==
    /\ job = "plain"
    /\ sPc = "loop"
    /\ sIdx >= total
    /\ sReport' = IF is_model_completed_plain(sResume)
                  THEN "COMPLETED" ELSE "INCOMPLETE"
    /\ sPc' = "done"
    /\ UNCHANGED <<sResume, sResult, sIdx, sRuns>>

\* the process is killed inside the loop
PlainKill ==
    /\ job = "plain"
    /\ sPc = "loop"
    /\ sPc' = "idle"
    /\ sIdx' = 0
    /\ UNCHANGED <<sResume, sResult, sRuns, sReport>>

\* the process ends after process_model_streaming returned
PlainExit ==
    /\ job = "plain"
    /\ sPc = "done"
    /\ sPc' = "idle"
    /\ sIdx' = 0
    /\ UNCHANGED <<sResume, sResult, sRuns, sReport>>

\* one job of 1..MaxRecords records, run by one of the two drivers
PlainInit ==
    /\ job \in {"relevance", "plain"}
    /\ WriterStart
    /\ PlainStart
    /\ FuncStartState
    /\ ReviewStartState(<< >>)
    /\ ToolStart
    /\ \E n \in 1..MaxRecords : DriverStart(n, DEFAULT_MAX_RETRIES)

PlainNext ==
    \/ FileStart /\ UNCHANGED <<job, writerVars, driverVars, plainVars, funcVars, reviewVars, toolVars>>
    \/ FileEntryDone /\ UNCHANGED <<job, writerVars, driverVars, plainVars, funcVars, reviewVars, toolVars>>
    \/ FileEntryRaises /\ UNCHANGED <<job, writerVars, driverVars, plainVars, funcVars, reviewVars, toolVars>>
    \/ FileFinish /\ UNCHANGED <<job, writerVars, driverVars, plainVars, funcVars, reviewVars, toolVars>>
    \/ FileKill /\ UNCHANGED <<job, writerVars, driverVars, plainVars, funcVars, reviewVars, toolVars>>
    \/ FileExit /\ UNCHANGED <<job, writerVars, driverVars, plainVars, funcVars, reviewVars, toolVars>>
    \/ PlainStartRun /\ UNCHANGED <<job, writerVars, driverVars, relevanceVars, funcVars, reviewVars, toolVars>>
    \/ PlainEntryDone /\ UNCHANGED <<job, writerVars, driverVars, relevanceVars, funcVars, reviewVars, toolVars>>
    \/ PlainEntryRaises /\ UNCHANGED <<job, writerVars, driverVars, relevanceVars, funcVars, reviewVars, toolVars>>
    \/ PlainFinish /\ UNCHANGED <<job, writerVars, driverVars, relevanceVars, funcVars, reviewVars, toolVars>>
    \/ PlainKill /\ UNCHANGED <<job, writerVars, driverVars, relevanceVars, funcVars, reviewVars, toolVars>>
    \/ PlainExit /\ UNCHANGED <<job, writerVars, driverVars, relevanceVars, funcVars, reviewVars, toolVars>>

PlainSpec == PlainInit /\ [][PlainNext]_vars

\* the rows of file f are one llm or sentinel row per record, in input order
OnePerInputInOrder(f) ==
    /\ path_exists(f)
    /\ json_load(f[1]).ok
    /\ Len(json_load(f[1]).data) = total
    /\ \A i \in 1..total : json_load(f[1]).data[i].id = i

\* C5: when a driver has gone through all records and the job is marked
\* completed, the output holds exactly one object per input object, in input
\* order, whatever records failed (relevance driver and plain model driver).
C5_OneRowPerInput ==
    /\ (job = "relevance" /\ fPc = "done" /\ path_exists(fResume)
           /\ fResume[1].completed) => OnePerInputInOrder(fOutput)
    /\ (job = "plain" /\ sPc = "done" /\ is_model_completed_plain(sResume))
           => OnePerInputInOrder(sResult)

\* ------------------------------------------------------- time estimator
\* Processing times are whole seconds; a statistic is a fraction [num, den].
Frac(n, d) == [num |-> n, den |-> d]

Zero == Frac(0, 1)

\* what time.time() - self.last_entry_start_time can give
Durations == 1..MaxDuration

RECURSIVE SumSeq(_)
SumSeq(s) == IF s = << >> THEN 0 ELSE Head(s) + SumSeq(Tail(s))

\* load_processing_times: data.get('processing_times', []) of the times file
\* (a times file that exists is never empty), [] without a file
load_processing_times(f) == IF path_exists(f) THEN f[1] ELSE << >>

\* _save_processing_times: the whole list is written over the file
save_processing_times(times) == << times >>

\* TimeEstimator.__init__(file_name, total_entries, log_dir, resume_index)
TimeEstimator(total_entries, resume_index, f) ==
    [total_entries |-> total_entries,
     current_index |-> resume_index,
     remaining_entries |-> total_entries - resume_index,
     processing_times |-> load_processing_times(f)]

\* round((current_index / total_entries) * 100, 2), in hundredths of a
\* percent; the division raises ZeroDivisionError when total_entries is 0
calculate_progress_percentage(t) ==
    (2 * t.current_index * 10000 + t.total_entries) \div (2 * t.total_entries)

\* _get_empty_estimates without the progress percentage
empty_estimates(t) ==
    [avg_time_per_entry |-> Zero,
     median_time_per_entry |-> Zero,
     weighted_avg_time |-> Zero,
     std_dev |-> Zero,
     elapsed_time |-> Zero,
     estimated_remaining_time |-> Zero,
     estimated_total_time |-> Zero,
     estimated_completion_time |-> << >>,
     entries_completed |-> t.current_index,
     entries_total |-> t.total_entries,
     entries_remaining |-> t.remaining_entries,
     entries_per_minute |-> Zero]

\* mean(self.processing_times)
mean(times) == Frac(SumSeq(times), Len(times))

\* median(self.processing_times)
median(times) ==
    LET sorted == SortSeq(times, LAMBDA a, b : a < b)
        n == Len(times)
    IN  IF n % 2 = 1 THEN Frac(sorted[(n + 1) \div 2], 1)
        ELSE Frac(sorted[n \div 2] + sorted[n \div 2 + 1], 2)

\* the weighted average of _calculate_time_statistics: the last five times
\* with the weights 0.1, 0.15, 0.2, 0.25, 0.3 once there are more than five
weighted_avg_time(times) ==
    LET n == Len(times)
    IN  IF n > 5
        THEN Frac(10 * times[n - 4] + 15 * times[n - 3] + 20 * times[n - 2]
                      + 25 * times[n - 1] + 30 * times[n], 100)
        ELSE mean(times)

\* stdev(self.processing_times), kept squared (the sample variance)
std_dev(times) ==
    LET n == Len(times)
        squares == [i \in 1..n |-> times[i] * times[i]]
    IN  IF n > 1
        THEN Frac(n * SumSeq(squares) - SumSeq(times) * SumSeq(times),
                  n * (n - 1))
        ELSE Zero

\* the dict get_estimates builds from a non-empty history, without the
\* progress percentage; elapsed is time.time() - self.start_time
measured_estimates(t, elapsed) ==
    LET weighted == weighted_avg_time(t.processing_times)
        remaining == Frac(weighted.num * t.remaining_entries, weighted.den)
    IN  [avg_time_per_entry |-> mean(t.processing_times),
         median_time_per_entry |-> median(t.processing_times),
         weighted_avg_time |-> weighted,
         std_dev |-> std_dev(t.processing_times),
         elapsed_time |-> Frac(elapsed, 1),
         estimated_remaining_time |-> remaining,
         estimated_total_time |->
             Frac(elapsed * weighted.den + remaining.num, weighted.den),
         estimated_completion_time |-> << remaining >>,
         entries_completed |-> t.current_index,
         entries_total |-> t.total_entries,
         entries_remaining |-> t.remaining_entries,
         entries_per_minute |->
             IF elapsed > 0 THEN Frac(t.current_index * 60, elapsed)
             ELSE Zero]

\* get_estimates(): both branches evaluate _calculate_progress_percentage
\* while they build the dict; what is returned, or the exception raised
get_estimates(t, elapsed) ==
    IF t.total_entries = 0
    THEN [raised |-> "ZeroDivisionError", value |-> << >>,
          progress_percentage |-> 0]
    ELSE [raised |-> "none",
          value |-> << IF t.processing_times = << >>
                       THEN empty_estimates(t)
                       ELSE measured_estimates(t, elapsed) >>,
          progress_percentage |-> calculate_progress_percentage(t)]

\* ------------------------------------- function-analysis pipeline (file)
\* The ground truth holds records 1..total; record k sits at position k - 1.
\* The resume file holds last_processed (the id), index, completed and
\* failed_entries; the output file is a JSON list read and written whole.

\* ResumeState.find_resume_index(ground_truth_data) after load_state
find_resume_index(resume_file, data_len) ==
    IF ~path_exists(resume_file) THEN 0
    ELSE LET last_processed == resume_file[1].last_processed
         IN  IF last_processed \in 1..data_len THEN last_processed ELSE 0

\* ResumeState.save_state called by TimeEstimator.end_entry: the ledger of
\* the file is loaded, the failed entries of this run are added to it
save_state(resume_file, entry, index, total_entries, failed) ==
    << [last_processed |-> entry,
        index |-> index,
        total |-> total_entries,
        completed |-> index >= total_entries,
        failed_entries |->
            (IF path_exists(resume_file)
             THEN resume_file[1].failed_entries ELSE << >>) \o failed] >>

\* a check of the output that compares the number of rows only
is_fully_processed_by_count(resume_file, output_file, data_len) ==
    IF path_exists(resume_file) /\ resume_file[1].completed
    THEN TRUE
    ELSE IF ~path_exists(output_file) THEN FALSE
    ELSE Len(output_file[1]) = data_len

\* is_fully_processed(output_file, ground_truth_data, log_dir, file_name)
is_fully_processed(resume_file, output_file, data_len) ==
    IF path_exists(resume_file) /\ resume_file[1].completed
    THEN TRUE
    ELSE IF ~path_exists(output_file) THEN FALSE
    ELSE IF Len(output_file[1]) # data_len THEN FALSE
    ELSE { output_file[1][i] : i \in DOMAIN output_file[1] } = 1..data_len

\* append_to_output(output_file, entry): load, append, write back
append_to_output(output_file, entry) ==
    << (IF path_exists(output_file) THEN output_file[1] ELSE << >>)
       \o <<entry>> >>

\* _process_file up to its loop over the ground truth
FuncStart ==
    /\ job = "function"
    /\ gPc = "idle"
    /\ gRuns < MaxFuncRuns
    /\ gRuns' = gRuns + 1
    /\ IF path_exists(gOutput) /\ is_fully_processed(gResume, gOutput, total)
       THEN /\ gPc' = "skipped"
            /\ UNCHANGED <<gIdx, current_index, processing_times>>
       ELSE /\ gPc' = "loop"
            /\ gIdx' = find_resume_index(gResume, total)
            /\ current_index' = find_resume_index(gResume, total)
            /\ processing_times' = load_processing_times(times_file)
    /\ UNCHANGED <<gResume, gOutput, times_file>>

\* _process_single_function: start_entry, process_entry and append_to_output
\* run through
FuncAppend ==
    /\ job = "function"
    /\ gPc = "loop"
    /\ gIdx < total
    /\ gOutput' = append_to_output(gOutput, gIdx + 1)
    /\ gPc' = "appended"
    /\ UNCHANGED <<gResume, gIdx, current_index, gRuns, times_file,
                   processing_times>>

\* _process_single_function: end_entry(success=True) appends the processing
\* time, saves the processing times and saves the resume state
FuncEndEntry ==
    /\ job = "function"
    /\ gPc = "appended"
    /\ \E processing_time \in Durations :
           processing_times' = Append(processing_times, processing_time)
    /\ times_file' = save_processing_times(processing_times')
    /\ current_index' = current_index + 1
    /\ gResume' = save_state(gResume, gIdx + 1, current_index', total, << >>)
    /\ gIdx' = gIdx + 1
    /\ gPc' = "loop"
    /\ UNCHANGED <<gOutput, gRuns>>

\* process_entry raises: end_entry(success=False) appends the processing
\* time, saves the processing times and saves the resume state with the
\* failed record as last_processed, then the RuntimeError ends the run
FuncEntryRaises ==
    /\ job = "function"
    /\ gPc = "loop"
    /\ gIdx < total
    /\ \E processing_time \in Durations :
           processing_times' = Append(processing_times, processing_time)
    /\ times_file' = save_processing_times(processing_times')
    /\ current_index' = current_index + 1
    /\ gResume' = save_state(gResume, gIdx + 1, current_index', total,
                             << gIdx + 1 >>)
    /\ gPc' = "idle"
    /\ gIdx' = 0
    /\ UNCHANGED <<gOutput, gRuns>>

\* the loop is through; process_directory clears the resume point of a file
\* that is fully processed
FuncFinish ==
    /\ job = "function"
    /\ (gPc = "loop" /\ gIdx >= total) \/ gPc = "skipped"
    /\ gResume' = IF /\ path_exists(gOutput)
                     /\ is_fully_processed(gResume, gOutput, total)
                  THEN << >> ELSE gResume
    /\ gPc' = "done"
    /\ UNCHANGED <<gOutput, gIdx, current_index, gRuns, times_file,
                   processing_times>>

\* the process is killed inside _process_file
FuncKill ==
    /\ job = "function"
    /\ gPc \in {"loop", "appended", "skipped"}
    /\ gPc' = "idle"
    /\ gIdx' = 0
    /\ UNCHANGED <<gResume, gOutput, current_index, gRuns, times_file,
                   processing_times>>

\* the process ends after process_directory returned
FuncExit ==
    /\ job = "function"
    /\ gPc = "done"
    /\ gPc' = "idle"
    /\ gIdx' = 0
    /\ UNCHANGED <<gResume, gOutput, current_index, gRuns, times_file,
                   processing_times>>

\* one file whose ground truth has 1..MaxRecords records
FuncInit ==
    /\ job = "function"
    /\ WriterStart
    /\ PlainStart
    /\ FuncStartState
    /\ ReviewStartState(<< >>)
    /\ ToolStart
    /\ \E n \in 1..MaxRecords : DriverStart(n, DEFAULT_MAX_RETRIES)

FuncNext ==
    \/ FuncStart /\ UNCHANGED <<job, writerVars, driverVars, relevanceVars, plainVars, reviewVars, toolVars>>
    \/ FuncAppend /\ UNCHANGED <<job, writerVars, driverVars, relevanceVars, plainVars, reviewVars, toolVars>>
    \/ FuncEndEntry /\ UNCHANGED <<job, writerVars, driverVars, relevanceVars, plainVars, reviewVars, toolVars>>
    \/ FuncEntryRaises /\ UNCHANGED <<job, writerVars, driverVars, relevanceVars, plainVars, reviewVars, toolVars>>
    \/ FuncFinish /\ UNCHANGED <<job, writerVars, driverVars, relevanceVars, plainVars, reviewVars, toolVars>>
    \/ FuncKill /\ UNCHANGED <<job, writerVars, driverVars, relevanceVars, plainVars, reviewVars, toolVars>>
    \/ FuncExit /\ UNCHANGED <<job, writerVars, driverVars, relevanceVars, plainVars, reviewVars, toolVars>>

FuncSpec == FuncInit /\ [][FuncNext]_vars

\* record k has a row in the output of the function job
HasRow(k) ==
    /\ path_exists(gOutput)
    /\ \E i \in DOMAIN gOutput[1] : gOutput[1][i] = k

\* the timing history held by the times file (none without a file)
history == load_processing_times(times_file)

\* C29: the persisted timing history is append-only: no step removes or
\* changes an entry, the step that completes a record (end_entry after the
\* row was appended) adds exactly one entry, and the step in which a record
\* fails adds none.
C29_HistoryAppendOnly ==
    [][/\ Len(history') >= Len(history)
       /\ SubSeq(history', 1, Len(history)) = history
       /\ (gPc = "appended" /\ gPc' = "loop")
              => Len(history') = Len(history) + 1
       /\ (gPc = "loop" /\ gPc' = "idle" /\ current_index' # current_index)
              => history' = history]_vars

\* C32: is_fully_processed answers true whenever the persisted resume state
\* of the file is marked completed, and false when it is not marked completed
\* and some ground-truth record has no row in the output file.
C32_FullyProcessed ==
    /\ (path_exists(gResume) /\ gResume[1].completed)
           => is_fully_processed(gResume, gOutput, total)
    /\ (/\ ~(path_exists(gResume) /\ gResume[1].completed)
        /\ \E k \in 1..total : ~HasRow(k))
           => ~is_fully_processed(gResume, gOutput, total)

\* the output holds as many rows as there are records, a record has none,
\* and the resume state is not marked completed
C32_Witness ==
    /\ path_exists(gResume)
    /\ ~gResume[1].completed
    /\ path_exists(gOutput)
    /\ Len(gOutput[1]) = total
    /\ \E k \in 1..total : ~HasRow(k)

\* C13: whenever the function-analysis driver is not running, the persisted
\* resume position designates the next record to attempt: every record
\* before it has an output row, so a record whose processing raised is the
\* first one the next run attempts and is not skipped.
C13_ResumeAtFailedRecord ==
    (gPc = "idle" /\ path_exists(gResume)) =>
        \A k \in 1..find_resume_index(gResume, total) : HasRow(k)

\* ------------------------------------------- consensus reviewer, shared
\* A decision value is [kind, n]: Python True and False are kind "bool" with
\* n 1 and 0, integers are kind "int". An optional value is a sequence of
\* length at most 1 (None is << >>).
PyBool(b) == [kind |-> "bool", n |-> IF b THEN 1 ELSE 0]

PyInt(n) == [kind |-> "int", n |-> n]

\* None where a decision value is written
PyNone == [kind |-> "none", n |-> 0]

\* Python ==: True == 1 and False == 0
py_eq(a, b) == a.n = b.n

\* the decision payloads of the POST body: Decision.decision is int, bool or
\* str
StrPayload(text) == [type |-> "str", text |-> text, n |-> 0]

DecisionPayloads ==
    { StrPayload("FALSE"), StrPayload("1"), StrPayload("abc"),
      [type |-> "bool", text |-> "", n |-> 1] }

\* bodies the Decision model accepts besides those: the integers
AnyPayloads ==
    DecisionPayloads
        \cup { [type |-> "int", text |-> "", n |-> n] : n \in -1..MaxDecision }

\* str.lower() on the payload texts
lower(text) == IF text = "FALSE" THEN "false" ELSE text

\* int(text) succeeds on integer literals and raises ValueError otherwise
is_int_literal(text) == text \in {"-1", "0", "1"}

int_of(text) == CASE text = "-1" -> -1 [] text = "0" -> 0 [] OTHER -> 1

\* variant of the conversion taking a string that is no integer literal as 0
convert_decision_lenient(payload) ==
    IF payload.type = "str"
    THEN IF lower(payload.text) = "true"
         THEN [ok |-> TRUE, value |-> PyBool(TRUE)]
         ELSE IF lower(payload.text) = "false"
         THEN [ok |-> TRUE, value |-> PyBool(FALSE)]
         ELSE IF is_int_literal(payload.text)
         THEN [ok |-> TRUE, value |-> PyInt(int_of(payload.text))]
         ELSE [ok |-> TRUE, value |-> PyInt(0)]
    ELSE IF payload.type = "bool"
    THEN [ok |-> TRUE, value |-> PyBool(payload.n = 1)]
    ELSE [ok |-> TRUE, value |-> PyInt(payload.n)]

\* "Convert the decision to the correct type" in submit_decision:
\* [ok, value], ok false when int() raises
convert_decision(payload) ==
    IF payload.type = "str"
    THEN IF lower(payload.text) = "true"
         THEN [ok |-> TRUE, value |-> PyBool(TRUE)]
         ELSE IF lower(payload.text) = "false"
         THEN [ok |-> TRUE, value |-> PyBool(FALSE)]
         ELSE IF is_int_literal(payload.text)
         THEN [ok |-> TRUE, value |-> PyInt(int_of(payload.text))]
         ELSE [ok |-> FALSE, value |-> PyInt(0)]
    ELSE IF payload.type = "bool"
    THEN [ok |-> TRUE, value |-> PyBool(payload.n = 1)]
    ELSE [ok |-> TRUE, value |-> PyInt(payload.n)]

\* a record is under review: the batch thread took it and has not written it
UnderReview == rvPc \notin {"idle", "next"}

\* ------------------------------------------- relevance reviewer (2 stages)
\* JsonProcessor._normalize_decision on the values submit_decision passes
normalize_decision(decision) == PyInt(decision.n)

\* JsonProcessor._extract_result, on the "result" field of relevance_analysis
extract_result(text) ==
    CASE text = "vulnerable" -> << PyInt(1) >>
      [] text = "not vulnerable" -> << PyInt(0) >>
      [] text = "not relevant" -> << PyInt(-1) >>
      [] OTHER -> << >>

\* variant of _apply_user_decision finalizing at stage 1 whatever the
\* automatic decision
apply_user_decision_first(o, decision) ==
    [o EXCEPT !.user_decision_round1 = << decision >>,
              !.label = << decision >>,
              !.review_stage = 0]

\* JsonProcessor._apply_user_decision(obj, decision, id_info)
apply_user_decision(o, decision) ==
    LET dv == normalize_decision(decision)
    IN  IF o.review_stage = 1
        THEN IF o.analysis_label # << >> /\ py_eq(dv, o.analysis_label[1])
             THEN [o EXCEPT !.user_decision_round1 = <<dv>>,
                            !.label = <<dv>>,
                            !.review_stage = 0]
             ELSE [o EXCEPT !.user_decision_round1 = <<dv>>,
                            !.review_stage = 2]
        ELSE [o EXCEPT !.user_decision_round2 = <<dv>>,
                       !.label = <<dv>>,
                       !.review_stage = 0]

\* start_processing starts the thread; process_json_files up to its loops
RvStartEffect ==
    /\ rvRuns' = rvRuns + 1
    /\ stop_processing' = FALSE
    /\ is_processing' = TRUE
    /\ rvPos' = 0
    /\ rvOut' = << >>
    /\ applied' = << >>
    /\ rvPc' = "next"
    /\ mailFresh' = FALSE
    /\ UNCHANGED <<rvData, current_object, user_decision, processing_paused,
                   obj, decision_value, decision_stage,
                   awaiting_user_decision, out_f, response>>

\* GET /start_processing with no batch thread alive
RvStart ==
    /\ job = "review_relevance"
    /\ rvPc = "idle"
    /\ rvRuns < MaxReviewRuns
    /\ RvStartEffect

\* head of the loop over the objects: stop check, then current_object and
\* _process_json_object; after the last object the file is written
RvNextObject ==
    /\ job = "review_relevance"
    /\ rvPc = "next"
    /\ IF stop_processing \/ rvPos >= Len(rvData)
       THEN /\ is_processing' = FALSE
            /\ rvPc' = "idle"
            /\ UNCHANGED <<current_object, obj, applied>>
       ELSE /\ current_object' = << rvPos + 1 >>
            /\ obj' = fresh_obj(extract_result(rvData[rvPos + 1].analysis))
            /\ applied' = << >>
            /\ rvPc' = "check"
            /\ UNCHANGED is_processing
    /\ UNCHANGED <<rvData, rvPos, rvRuns, user_decision, processing_paused,
                   stop_processing, decision_value, decision_stage,
                   awaiting_user_decision, out_f, rvOut, mailFresh, response>>

\* "while obj.get('relevance_label') is None": a labelled record is stripped
\* and written; otherwise the signal is cleared and the thread waits, or it
\* takes the decision already in the mailbox
RvCheck ==
    /\ job = "review_relevance"
    /\ rvPc = "check"
    /\ IF obj.label # << >>
       THEN /\ rvOut' = Append(rvOut, obj.label[1])
            /\ rvPos' = rvPos + 1
            /\ rvPc' = "next"
            /\ mailFresh' = FALSE
            /\ UNCHANGED processing_paused
       ELSE /\ processing_paused' = FALSE
            /\ rvPc' = IF user_decision = << >> THEN "wait" ELSE "readq"
            /\ UNCHANGED <<rvOut, rvPos, mailFresh>>
    /\ UNCHANGED <<rvData, rvRuns, current_object, user_decision,
                   stop_processing, is_processing, obj, decision_value,
                   decision_stage, awaiting_user_decision, out_f, applied, response>>

\* "while not self.processing_paused.is_set()": leaves on the signal, returns
\* on the stop signal
RvWait ==
    /\ job = "review_relevance"
    /\ rvPc = "wait"
    /\ processing_paused \/ stop_processing
    /\ IF processing_paused
       THEN /\ rvPc' = "read"
            /\ UNCHANGED is_processing
       ELSE /\ rvPc' = "idle"
            /\ is_processing' = FALSE
    /\ UNCHANGED <<rvData, rvPos, rvRuns, current_object, user_decision,
                   processing_paused, stop_processing, obj, decision_value,
                   decision_stage, awaiting_user_decision, out_f, rvOut,
                   applied, mailFresh, response>>

\* "decision_value = self.user_decision"
RvRead ==
    /\ job = "review_relevance"
    /\ rvPc \in {"read", "readq"}
    /\ decision_value' =
           IF user_decision = << >> THEN << >>
           ELSE << [value |-> user_decision[1], fresh |-> mailFresh] >>
    /\ rvPc' = "clear"
    /\ UNCHANGED <<rvData, rvPos, rvRuns, current_object, user_decision,
                   processing_paused, stop_processing, is_processing, obj,
                   decision_stage, awaiting_user_decision, out_f, rvOut,
                   applied, mailFresh, response>>

\* "self.user_decision = None" and "if decision_value is None: continue"
RvClearMailbox ==
    /\ job = "review_relevance"
    /\ rvPc = "clear"
    /\ user_decision' = << >>
    /\ rvPc' = IF decision_value = << >> THEN "check" ELSE "apply"
    /\ UNCHANGED <<rvData, rvPos, rvRuns, current_object, processing_paused,
                   stop_processing, is_processing, obj, decision_value,
                   decision_stage, awaiting_user_decision, out_f, rvOut,
                   applied, mailFresh, response>>

\* "self._apply_user_decision(obj, decision_value, id_info)"
RvApply ==
    /\ job = "review_relevance"
    /\ rvPc = "apply"
    /\ obj' = apply_user_decision(obj, decision_value[1].value)
    /\ applied' = Append(applied, [pos |-> rvPos + 1,
                                   stage |-> obj.review_stage,
                                   value |-> decision_value[1].value,
                                   fresh |-> decision_value[1].fresh])
    /\ decision_value' = << >>
    /\ mailFresh' = FALSE
    /\ rvPc' = "check"
    /\ UNCHANGED <<rvData, rvPos, rvRuns, current_object, user_decision,
                   processing_paused, stop_processing, is_processing,
                   decision_stage, awaiting_user_decision, out_f, rvOut,
                   response>>

\* POST /submit_decision and JsonProcessor.set_user_decision, for a body
\* out of payloads
RvSubmitOf(payloads) ==
    /\ job = "review_relevance"
    /\ \E payload \in payloads :
           LET conv == convert_decision(payload)
           IN  IF conv.ok
               THEN /\ user_decision' = << normalize_decision(conv.value) >>
                    /\ processing_paused' = TRUE
                    /\ mailFresh' = UnderReview
                    /\ response' = [status |-> "ok", type |-> payload.type,
                                     text |-> payload.text]
               ELSE /\ response' = [status |-> "error", type |-> payload.type,
                                     text |-> payload.text]
                    /\ UNCHANGED <<user_decision, processing_paused,
                                   mailFresh>>
    /\ UNCHANGED <<rvData, rvPos, rvPc, rvRuns, current_object,
                   stop_processing, is_processing, obj, decision_value,
                   decision_stage, awaiting_user_decision, out_f, rvOut,
                   applied>>

\* a client of the review page posts one of its decisions
RvSubmit == RvSubmitOf(DecisionPayloads)

\* a client posts any body the Decision model accepts
RvSubmitAny == RvSubmitOf(AnyPayloads)

\* GET /stop_processing and request_stop_processing
RvRequestStop ==
    /\ job = "review_relevance"
    /\ rvPc # "idle"
    /\ is_processing
    /\ stop_processing' = TRUE
    /\ UNCHANGED <<rvData, rvPos, rvPc, rvRuns, current_object,
                   user_decision, processing_paused, is_processing, obj,
                   decision_value, decision_stage, awaiting_user_decision,
                   out_f, rvOut, applied, mailFresh, response>>

\* -------------------------------------------- function reviewer (2 stages)
\* JSONProcessor.extract_function_vulnerability, on the
\* "is_function_vulnerable" field of function_analysis
extract_function_vulnerability(text) ==
    CASE text = "true" -> << PyInt(1) >>
      [] text = "not vulnerable" -> << PyInt(0) >>
      [] OTHER -> << >>

\* variant of the exemption test exempting no record
is_exempt_never(relevance_label) == FALSE

\* "if relevance_label in (-1, 0)"
is_exempt(relevance_label) == relevance_label \in {-1, 0}

\* start_processing: reset_processing_state, thread start, and
\* process_json_files up to "with open(output_path, 'w') as out_f"
FnStartEffect ==
    /\ rvRuns' = rvRuns + 1
    /\ current_object' = << >>
    /\ user_decision' = << >>
    /\ decision_stage' = 0
    /\ awaiting_user_decision' = FALSE
    /\ is_processing' = TRUE
    /\ out_f' = TRUE
    /\ rvPos' = 0
    /\ rvOut' = << >>
    /\ applied' = << >>
    /\ rvPc' = "next"
    /\ mailFresh' = FALSE
    /\ UNCHANGED <<rvData, processing_paused, stop_processing, obj,
                   decision_value, response>>

\* GET /start_processing with no batch thread alive
FnStart ==
    /\ job = "review_function"
    /\ rvPc = "idle"
    /\ rvRuns < MaxReviewRuns
    /\ FnStartEffect

\* head of "for obj_index, obj in enumerate(data, 1)": an exempt record gets
\* function_label 0 and is written; another one goes to stage 1; after the
\* last record the with block closes the file
FnNextObject ==
    /\ job = "review_function"
    /\ rvPc = "next"
    /\ IF rvPos >= Len(rvData)
       THEN /\ out_f' = FALSE
            /\ is_processing' = FALSE
            /\ rvPc' = "idle"
            /\ UNCHANGED <<obj, rvOut, rvPos, applied>>
       ELSE IF is_exempt(rvData[rvPos + 1].relevance_label)
       THEN /\ obj' = [fresh_obj(<< >>) EXCEPT !.label = << PyInt(0) >>]
            /\ applied' = << >>
            /\ rvOut' = Append(rvOut, PyInt(0))
            /\ rvPos' = rvPos + 1
            /\ UNCHANGED <<out_f, is_processing, rvPc>>
       ELSE /\ obj' = fresh_obj(extract_function_vulnerability(
                                    rvData[rvPos + 1].analysis))
            /\ applied' = << >>
            /\ rvPc' = "publish"
            /\ UNCHANGED <<out_f, is_processing, rvOut, rvPos>>
    /\ UNCHANGED <<rvData, rvRuns, current_object, user_decision,
                   processing_paused, stop_processing, decision_value,
                   decision_stage, awaiting_user_decision, mailFresh,
                   response>>

\* _await_user_decision up to "self.awaiting_user_decision = True"
FnPublish ==
    /\ job = "review_function"
    /\ rvPc = "publish"
    /\ current_object' = << rvPos + 1 >>
    /\ user_decision' = << >>
    /\ decision_stage' = obj.review_stage
    /\ awaiting_user_decision' = TRUE
    /\ rvPc' = "clearsig"
    /\ UNCHANGED <<rvData, rvPos, rvRuns, processing_paused, stop_processing,
                   is_processing, obj, decision_value, out_f, rvOut, applied,
                   mailFresh, response>>

\* "self.processing_paused.clear()"
FnClearSignal ==
    /\ job = "review_function"
    /\ rvPc = "clearsig"
    /\ processing_paused' = FALSE
    /\ rvPc' = "wait"
    /\ UNCHANGED <<rvData, rvPos, rvRuns, current_object, user_decision,
                   stop_processing, is_processing, obj, decision_value,
                   decision_stage, awaiting_user_decision, out_f, rvOut,
                   applied, mailFresh, response>>

\* "self.processing_paused.wait()" returns once the signal is set
FnWait ==
    /\ job = "review_function"
    /\ rvPc = "wait"
    /\ processing_paused
    /\ rvPc' = "woke"
    /\ UNCHANGED <<rvData, rvPos, rvRuns, current_object, user_decision,
                   processing_paused, stop_processing, is_processing, obj,
                   decision_value, decision_stage, awaiting_user_decision,
                   out_f, rvOut, applied, mailFresh, response>>

\* variant of the comparison asking for a second review even on consensus
fn_decide_no_consensus(o, d) ==
    IF o.review_stage = 1
    THEN [o EXCEPT !.user_decision_round1 = <<d>>,
                   !.review_stage = 2]
    ELSE [o EXCEPT !.user_decision_round2 = <<d>>,
                   !.label = <<d>>,
                   !.review_stage = 0]

\* function_label from the decision d returned for the stage of o
fn_decide(o, d) ==
    IF o.review_stage = 1
    THEN IF o.analysis_label # << >> /\ py_eq(d, o.analysis_label[1])
         THEN [o EXCEPT !.user_decision_round1 = <<d>>,
                        !.label = <<d>>,
                        !.review_stage = 0]
         ELSE [o EXCEPT !.user_decision_round1 = <<d>>,
                        !.review_stage = 2]
    ELSE [o EXCEPT !.user_decision_round2 = <<d>>,
                   !.label = <<d>>,
                   !.review_stage = 0]

\* the comparison when _await_user_decision returned None: None equals no
\* automatic decision that is not None, and at stage 2 None is the label
fn_decide_none(o) ==
    IF o.review_stage = 1
    THEN [o EXCEPT !.review_stage = 2]
    ELSE [o EXCEPT !.review_stage = 0]

\* end of _await_user_decision ("return self.user_decision") and the
\* comparison with auto_decision in process_json_files
FnReturn ==
    /\ job = "review_function"
    /\ rvPc = "woke"
    /\ awaiting_user_decision' = FALSE
    /\ obj' = IF user_decision = << >> THEN fn_decide_none(obj)
              ELSE fn_decide(obj, user_decision[1])
    /\ applied' = Append(applied, [pos |-> rvPos + 1,
                                   stage |-> obj.review_stage,
                                   value |-> IF user_decision = << >>
                                             THEN PyNone
                                             ELSE user_decision[1],
                                   fresh |-> mailFresh])
    /\ rvPc' = IF obj'.review_stage = 0 THEN "finalize" ELSE "publish"
    /\ mailFresh' = FALSE
    /\ UNCHANGED <<rvData, rvPos, rvRuns, current_object, user_decision,
                   processing_paused, stop_processing, is_processing,
                   decision_value, decision_stage, out_f, rvOut,
                   response>>

\* _clear_decision_context, then the record is written through out_f
FnFinalize ==
    /\ job = "review_function"
    /\ rvPc = "finalize"
    /\ current_object' = << >>
    /\ user_decision' = << >>
    /\ decision_stage' = 0
    /\ awaiting_user_decision' = FALSE
    /\ rvOut' = Append(rvOut, IF obj.label = << >> THEN PyNone
                              ELSE obj.label[1])
    /\ rvPos' = rvPos + 1
    /\ rvPc' = "next"
    /\ mailFresh' = FALSE
    /\ UNCHANGED <<rvData, rvRuns, processing_paused, stop_processing,
                   is_processing, obj, decision_value, out_f, applied, response>>

\* POST /submit_decision and JSONProcessor.set_user_decision
FnSubmit ==
    /\ job = "review_function"
    /\ \E payload \in DecisionPayloads :
           LET conv == convert_decision(payload)
           IN  IF conv.ok
               THEN /\ user_decision' = << conv.value >>
                    /\ awaiting_user_decision' = FALSE
                    /\ processing_paused' = TRUE
                    /\ mailFresh' = UnderReview
                    /\ response' = [status |-> "ok", type |-> payload.type,
                                     text |-> payload.text]
               ELSE /\ response' = [status |-> "error", type |-> payload.type,
                                     text |-> payload.text]
                    /\ UNCHANGED <<user_decision, awaiting_user_decision,
                                   processing_paused, mailFresh>>
    /\ UNCHANGED <<rvData, rvPos, rvPc, rvRuns, current_object,
                   stop_processing, is_processing, obj, decision_value,
                   decision_stage, out_f, rvOut, applied>>

\* ------------------------------------------------- reviewers, specification
\* "result" texts of relevance_analysis
RelevanceTexts == {"vulnerable", "not vulnerable", "unparsed"}

\* "is_function_vulnerable" texts of function_analysis
FunctionTexts == {"true", "not vulnerable", "unclear"}

\* the records of the input file of a reviewer
ReviewRecords(j) ==
    IF j = "review_relevance"
    THEN [analysis : RelevanceTexts, relevance_label : {1}]
    ELSE { r \in [analysis : FunctionTexts, relevance_label : {-1, 0, 1}] :
               r.relevance_label = 1 \/ r.analysis = "unclear" }

RECURSIVE SeqsUpTo(_, _)
SeqsUpTo(S, n) ==
    IF n = 0 THEN { << >> }
    ELSE LET shorter == SeqsUpTo(S, n - 1)
         IN  shorter \cup { Append(q, x) : q \in shorter, x \in S }

ReviewInit ==
    /\ job \in {"review_relevance", "review_function"}
    /\ WriterStart
    /\ DriverStart(1, DEFAULT_MAX_RETRIES)
    /\ PlainStart
    /\ FuncStartState
    /\ ToolStart
    /\ \E d \in SeqsUpTo(ReviewRecords(job), MaxReview) \ { << >> } :
           ReviewStartState(d)

ReviewNext ==
    \/ RvStart /\ UNCHANGED <<job, writerVars, driverVars, relevanceVars, plainVars, funcVars,
                    toolVars>>
    \/ RvNextObject /\ UNCHANGED <<job, writerVars, driverVars, relevanceVars, plainVars, funcVars,
                    toolVars>>
    \/ RvCheck /\ UNCHANGED <<job, writerVars, driverVars, relevanceVars, plainVars, funcVars,
                    toolVars>>
    \/ RvWait /\ UNCHANGED <<job, writerVars, driverVars, relevanceVars, plainVars, funcVars,
                    toolVars>>
    \/ RvRead /\ UNCHANGED <<job, writerVars, driverVars, relevanceVars, plainVars, funcVars,
                    toolVars>>
    \/ RvClearMailbox /\ UNCHANGED <<job, writerVars, driverVars, relevanceVars, plainVars, funcVars,
                    toolVars>>
    \/ RvApply /\ UNCHANGED <<job, writerVars, driverVars, relevanceVars, plainVars, funcVars,
                    toolVars>>
    \/ RvSubmit /\ UNCHANGED <<job, writerVars, driverVars, relevanceVars, plainVars, funcVars,
                    toolVars>>
    \/ RvRequestStop /\ UNCHANGED <<job, writerVars, driverVars, relevanceVars, plainVars, funcVars,
                    toolVars>>
    \/ FnStart /\ UNCHANGED <<job, writerVars, driverVars, relevanceVars, plainVars, funcVars,
                    toolVars>>
    \/ FnNextObject /\ UNCHANGED <<job, writerVars, driverVars, relevanceVars, plainVars, funcVars,
                    toolVars>>
    \/ FnPublish /\ UNCHANGED <<job, writerVars, driverVars, relevanceVars, plainVars, funcVars,
                    toolVars>>
    \/ FnClearSignal /\ UNCHANGED <<job, writerVars, driverVars, relevanceVars, plainVars, funcVars,
                    toolVars>>
    \/ FnWait /\ UNCHANGED <<job, writerVars, driverVars, relevanceVars, plainVars, funcVars,
                    toolVars>>
    \/ FnReturn /\ UNCHANGED <<job, writerVars, driverVars, relevanceVars, plainVars, funcVars,
                    toolVars>>
    \/ FnFinalize /\ UNCHANGED <<job, writerVars, driverVars, relevanceVars, plainVars, funcVars,
                    toolVars>>
    \/ FnSubmit /\ UNCHANGED <<job, writerVars, driverVars, relevanceVars, plainVars, funcVars,
                    toolVars>>

ReviewSpec == ReviewInit /\ [][ReviewNext]_vars

\* --------------------------- relevance reviewer, any accepted decision
LabelInit ==
    /\ job = "review_relevance"
    /\ WriterStart
    /\ DriverStart(1, DEFAULT_MAX_RETRIES)
    /\ PlainStart
    /\ FuncStartState
    /\ ToolStart
    /\ \E d \in SeqsUpTo(ReviewRecords(job), MaxLabelRecords) \ { << >> } :
           ReviewStartState(d)

LabelNext ==
    \/ RvStart /\ UNCHANGED <<job, writerVars, driverVars, relevanceVars, plainVars, funcVars, toolVars>>
    \/ RvNextObject /\ UNCHANGED <<job, writerVars, driverVars, relevanceVars, plainVars, funcVars, toolVars>>
    \/ RvCheck /\ UNCHANGED <<job, writerVars, driverVars, relevanceVars, plainVars, funcVars, toolVars>>
    \/ RvWait /\ UNCHANGED <<job, writerVars, driverVars, relevanceVars, plainVars, funcVars, toolVars>>
    \/ RvRead /\ UNCHANGED <<job, writerVars, driverVars, relevanceVars, plainVars, funcVars, toolVars>>
    \/ RvClearMailbox /\ UNCHANGED <<job, writerVars, driverVars, relevanceVars, plainVars, funcVars, toolVars>>
    \/ RvApply /\ UNCHANGED <<job, writerVars, driverVars, relevanceVars, plainVars, funcVars, toolVars>>
    \/ RvSubmitAny /\ UNCHANGED <<job, writerVars, driverVars, relevanceVars, plainVars, funcVars, toolVars>>
    \/ RvRequestStop /\ UNCHANGED <<job, writerVars, driverVars, relevanceVars, plainVars, funcVars, toolVars>>

LabelSpec == LabelInit /\ [][LabelNext]_vars

\* the steps of the batch thread of the relevance reviewer
RvThread ==
    (RvNextObject \/ RvCheck \/ RvWait \/ RvRead \/ RvClearMailbox
         \/ RvApply) /\ UNCHANGED <<job, writerVars, driverVars, relevanceVars, plainVars, funcVars, toolVars>>

\* the batch thread keeps running when it can take a step (its wait is a
\* poll every 0.1 s)
LabelFairSpec == LabelSpec /\ WF_vars(RvThread)

\* ------------------------- function reviewer, set_user_decision in steps
\* the batch thread has published a stage and has not returned from its wait
Published == rvPc \in {"clearsig", "wait"}

\* POST /submit_decision up to "self.user_decision = decision" of
\* JSONProcessor.set_user_decision; a payload int() rejects is answered with
\* the error
FnSetUserDecision ==
    /\ job = "review_function"
    /\ setPc = "idle"
    /\ \E payload \in DecisionPayloads :
           LET conv == convert_decision(payload)
           IN  IF conv.ok
               THEN /\ user_decision' = << conv.value >>
                    /\ mailFresh' = UnderReview
                    /\ setPc' = "written"
                    /\ submitted' = IF Published /\ submitted < 2
                                    THEN submitted + 1 ELSE submitted
                    /\ response' = [status |-> "pending",
                                     type |-> payload.type,
                                     text |-> payload.text]
               ELSE /\ response' = [status |-> "error", type |-> payload.type,
                                     text |-> payload.text]
                    /\ UNCHANGED <<user_decision, mailFresh, setPc,
                                   submitted>>
    /\ UNCHANGED <<rvData, rvPos, rvPc, rvRuns, current_object,
                   processing_paused, stop_processing, is_processing, obj,
                   decision_value, decision_stage, awaiting_user_decision,
                   out_f, rvOut, applied>>

\* "self.awaiting_user_decision = False" of set_user_decision
FnSetAwaiting ==
    /\ job = "review_function"
    /\ setPc = "written"
    /\ awaiting_user_decision' = FALSE
    /\ setPc' = "unflagged"
    /\ UNCHANGED <<rvData, rvPos, rvPc, rvRuns, current_object,
                   user_decision, processing_paused, stop_processing,
                   is_processing, obj, decision_value, decision_stage,
                   out_f, rvOut, applied, mailFresh, response, submitted>>

\* "self.processing_paused.set()" of set_user_decision, and the answer of
\* submit_decision
FnSetSignal ==
    /\ job = "review_function"
    /\ setPc = "unflagged"
    /\ processing_paused' = TRUE
    /\ setPc' = "idle"
    /\ response' = [response EXCEPT !.status = "ok"]
    /\ UNCHANGED <<rvData, rvPos, rvPc, rvRuns, current_object,
                   user_decision, stop_processing, is_processing, obj,
                   decision_value, decision_stage, awaiting_user_decision,
                   out_f, rvOut, applied, mailFresh, submitted>>

\* the steps of the batch thread
FnThread ==
    \/ (FnNextObject \/ FnClearSignal \/ FnWait \/ FnReturn \/ FnFinalize)
           /\ UNCHANGED <<job, writerVars, driverVars, relevanceVars, plainVars, funcVars, progressVars, streamVars, appendVars, estimateVars, resumeStateVars, findVars, completeVars, threadVars, awaitVars>>
    \/ FnPublish /\ submitted' = 0 /\ UNCHANGED <<job, writerVars, driverVars, relevanceVars, plainVars, funcVars, progressVars, streamVars, appendVars, estimateVars, resumeStateVars, findVars, completeVars, threadVars, setPc>>

\* the steps that end a set_user_decision call
FnSetEnd ==
    (FnSetAwaiting \/ FnSetSignal) /\ UNCHANGED <<job, writerVars, driverVars, relevanceVars, plainVars, funcVars, progressVars, streamVars, appendVars, estimateVars, resumeStateVars, findVars, completeVars, threadVars>>

AwaitInit ==
    /\ job = "review_function"
    /\ WriterStart
    /\ DriverStart(1, DEFAULT_MAX_RETRIES)
    /\ PlainStart
    /\ FuncStartState
    /\ ToolStart
    /\ \E d \in SeqsUpTo(ReviewRecords(job), MaxReview) \ { << >> } :
           ReviewStartState(d)

AwaitNext ==
    \/ FnStart /\ UNCHANGED <<job, writerVars, driverVars, relevanceVars, plainVars, funcVars, progressVars, streamVars, appendVars, estimateVars, resumeStateVars, findVars, completeVars, threadVars, awaitVars>>
    \/ FnNextObject /\ UNCHANGED <<job, writerVars, driverVars, relevanceVars, plainVars, funcVars, progressVars, streamVars, appendVars, estimateVars, resumeStateVars, findVars, completeVars, threadVars, awaitVars>>
    \/ FnPublish /\ submitted' = 0 /\ UNCHANGED <<job, writerVars, driverVars, relevanceVars, plainVars, funcVars, progressVars, streamVars, appendVars, estimateVars, resumeStateVars, findVars, completeVars, threadVars, setPc>>
    \/ FnClearSignal /\ UNCHANGED <<job, writerVars, driverVars, relevanceVars, plainVars, funcVars, progressVars, streamVars, appendVars, estimateVars, resumeStateVars, findVars, completeVars, threadVars, awaitVars>>
    \/ FnWait /\ UNCHANGED <<job, writerVars, driverVars, relevanceVars, plainVars, funcVars, progressVars, streamVars, appendVars, estimateVars, resumeStateVars, findVars, completeVars, threadVars, awaitVars>>
    \/ FnReturn /\ UNCHANGED <<job, writerVars, driverVars, relevanceVars, plainVars, funcVars, progressVars, streamVars, appendVars, estimateVars, resumeStateVars, findVars, completeVars, threadVars, awaitVars>>
    \/ FnFinalize /\ UNCHANGED <<job, writerVars, driverVars, relevanceVars, plainVars, funcVars, progressVars, streamVars, appendVars, estimateVars, resumeStateVars, findVars, completeVars, threadVars, awaitVars>>
    \/ FnSetUserDecision /\ UNCHANGED <<job, writerVars, driverVars, relevanceVars, plainVars, funcVars, progressVars, streamVars, appendVars, estimateVars, resumeStateVars, findVars, completeVars, threadVars>>
    \/ FnSetAwaiting /\ UNCHANGED <<job, writerVars, driverVars, relevanceVars, plainVars, funcVars, progressVars, streamVars, appendVars, estimateVars, resumeStateVars, findVars, completeVars, threadVars>>
    \/ FnSetSignal /\ UNCHANGED <<job, writerVars, driverVars, relevanceVars, plainVars, funcVars, progressVars, streamVars, appendVars, estimateVars, resumeStateVars, findVars, completeVars, threadVars>>

AwaitSpec == AwaitInit /\ [][AwaitNext]_vars

\* the batch thread keeps running when it can take a step, and a
\* set_user_decision call that has begun runs to its end
AwaitFairSpec ==
    /\ AwaitSpec
    /\ WF_vars(FnThread)
    /\ WF_vars(FnSetEnd)

\* ------------------------------ function reviewer with its progress page
\* UIManager.update_progress: file_progress of object obj_index out of
\* total_objects, as a whole percentage
file_progress_of(obj_index, total_objects) ==
    IF total_objects > 0 THEN (obj_index * 100) \div total_objects ELSE 0

\* the test of get_progress on the answer of progress.get()
is_complete(p) ==
    /\ p.total_files > 0
    /\ p.current_file_index = p.total_files
    /\ p.file_progress >= 100

\* GET /start_processing: processing_complete = False, reset_progress,
\* reset_processing_state and the thread start
CpStart ==
    /\ FnStart
    /\ processing_complete' = FALSE
    /\ ui_progress' = progress_fields(0, 0, 0)
    /\ reported' = << >>

\* head of the loop over the one input file: update_progress(1, 1,
\* obj_index, file_objects, ...) before the record is looked at, the same
\* call after an exempt record is written, and the calls after the loop
CpNextObject ==
    /\ FnNextObject
    /\ ui_progress' =
           IF rvPos >= Len(rvData)
           THEN progress_fields(100, 1, 1)
           ELSE progress_fields(file_progress_of(rvPos + 1, Len(rvData)),
                                1, 1)
    /\ UNCHANGED <<processing_complete, reported>>

\* the record is written, then update_progress with the same obj_index
CpFinalize ==
    /\ FnFinalize
    /\ ui_progress' =
           progress_fields(file_progress_of(rvPos + 1, Len(rvData)), 1, 1)
    /\ UNCHANGED <<processing_complete, reported>>

\* GET /progress
CpGetProgress ==
    /\ job = "review_function"
    /\ processing_complete' =
           (processing_complete \/ is_complete(ui_progress))
    /\ reported' = << processing_complete' >>
    /\ UNCHANGED <<reviewVars, ui_progress>>

CompleteInit ==
    /\ job = "review_function"
    /\ WriterStart
    /\ DriverStart(1, DEFAULT_MAX_RETRIES)
    /\ PlainStart
    /\ FuncStartState
    /\ ToolStart
    /\ \E d \in SeqsUpTo(ReviewRecords(job), MaxReview) \ { << >> } :
           ReviewStartState(d)

CompleteNext ==
    \/ CpStart /\ UNCHANGED <<job, writerVars, driverVars, relevanceVars, plainVars, funcVars, progressVars, streamVars, appendVars, estimateVars, resumeStateVars, findVars, awaitVars, threadVars>>
    \/ CpNextObject /\ UNCHANGED <<job, writerVars, driverVars, relevanceVars, plainVars, funcVars, progressVars, streamVars, appendVars, estimateVars, resumeStateVars, findVars, awaitVars, threadVars>>
    \/ FnPublish /\ UNCHANGED <<job, writerVars, driverVars, relevanceVars, plainVars, funcVars, progressVars, streamVars, appendVars, estimateVars, resumeStateVars, findVars, awaitVars, threadVars, completeVars>>
    \/ FnClearSignal /\ UNCHANGED <<job, writerVars, driverVars, relevanceVars, plainVars, funcVars, progressVars, streamVars, appendVars, estimateVars, resumeStateVars, findVars, awaitVars, threadVars, completeVars>>
    \/ FnWait /\ UNCHANGED <<job, writerVars, driverVars, relevanceVars, plainVars, funcVars, progressVars, streamVars, appendVars, estimateVars, resumeStateVars, findVars, awaitVars, threadVars, completeVars>>
    \/ FnReturn /\ UNCHANGED <<job, writerVars, driverVars, relevanceVars, plainVars, funcVars, progressVars, streamVars, appendVars, estimateVars, resumeStateVars, findVars, awaitVars, threadVars, completeVars>>
    \/ CpFinalize /\ UNCHANGED <<job, writerVars, driverVars, relevanceVars, plainVars, funcVars, progressVars, streamVars, appendVars, estimateVars, resumeStateVars, findVars, awaitVars, threadVars>>
    \/ FnSubmit /\ UNCHANGED <<job, writerVars, driverVars, relevanceVars, plainVars, funcVars, progressVars, streamVars, appendVars, estimateVars, resumeStateVars, findVars, awaitVars, threadVars, completeVars>>
    \/ CpGetProgress /\ UNCHANGED <<job, writerVars, driverVars, relevanceVars, plainVars, funcVars, progressVars, streamVars, appendVars, estimateVars, resumeStateVars, findVars, awaitVars, threadVars>>

CompleteSpec == CompleteInit /\ [][CompleteNext]_vars

\* ------------------------------------ web layer, start and stop requests
\* a test that lets every start request start a thread
can_start_any(threads) == TRUE

\* "if processing_thread is None or not processing_thread.is_alive()"
can_start(threads) == threads = 0

\* a step of the batch thread: the thread is gone once it has returned
thread_step == alive' = IF rvPc' = "idle" THEN alive - 1 ELSE alive

\* GET /start_processing of the relevance UI
StartProcessingRv ==
    /\ job = "review_relevance"
    /\ IF can_start(alive)
       THEN /\ rvRuns < MaxStarts
            /\ RvStartEffect
            /\ alive' = alive + 1
            /\ answer' = "Processing started"
       ELSE /\ answer' = "Processing already in progress"
            /\ UNCHANGED <<alive, reviewVars>>
    /\ UNCHANGED completeVars

\* GET /start_processing of the function UI
StartProcessingFn ==
    /\ job = "review_function"
    /\ IF can_start(alive)
       THEN /\ rvRuns < MaxStarts
            /\ processing_complete' = FALSE
            /\ ui_progress' = progress_fields(0, 0, 0)
            /\ reported' = << >>
            /\ FnStartEffect
            /\ alive' = alive + 1
            /\ answer' = "Processing started"
       ELSE /\ answer' = "Processing already in progress"
            /\ UNCHANGED <<alive, reviewVars, completeVars>>

\* GET /stop_processing of the relevance UI
StopProcessingRv ==
    /\ job = "review_relevance"
    /\ IF alive > 0
       THEN IF is_processing
            THEN /\ stop_processing' = TRUE
                 /\ answer' = "Processing stop requested"
            ELSE /\ answer' = "No active processing to stop"
                 /\ UNCHANGED stop_processing
       ELSE /\ answer' = "No processing in progress"
            /\ UNCHANGED stop_processing
    /\ UNCHANGED <<rvData, rvPos, rvPc, rvRuns, current_object,
                   user_decision, processing_paused, is_processing, obj,
                   decision_value, decision_stage, awaiting_user_decision,
                   out_f, rvOut, applied, mailFresh, response, alive,
                   completeVars>>

\* GET /stop_processing of the function UI: an answer and nothing else
StopProcessingFn ==
    /\ job = "review_function"
    /\ answer' = IF alive > 0 THEN "Processing stopped"
                 ELSE "No processing in progress"
    /\ UNCHANGED <<reviewVars, alive, completeVars>>

StartInit ==
    /\ job \in {"review_relevance", "review_function"}
    /\ WriterStart
    /\ DriverStart(1, DEFAULT_MAX_RETRIES)
    /\ PlainStart
    /\ FuncStartState
    /\ ToolStart
    /\ \E d \in SeqsUpTo(ReviewRecords(job), MaxLabelRecords) \ { << >> } :
           ReviewStartState(d)

StartNext ==
    \/ StartProcessingRv /\ UNCHANGED <<job, writerVars, driverVars, relevanceVars, plainVars, funcVars, progressVars, streamVars, appendVars, estimateVars, resumeStateVars, findVars, awaitVars>>
    \/ StopProcessingRv /\ UNCHANGED <<job, writerVars, driverVars, relevanceVars, plainVars, funcVars, progressVars, streamVars, appendVars, estimateVars, resumeStateVars, findVars, awaitVars>>
    \/ RvNextObject /\ thread_step /\ UNCHANGED <<job, writerVars, driverVars, relevanceVars, plainVars, funcVars, progressVars, streamVars, appendVars, estimateVars, resumeStateVars, findVars, awaitVars, completeVars, answer>>
    \/ RvCheck /\ thread_step /\ UNCHANGED <<job, writerVars, driverVars, relevanceVars, plainVars, funcVars, progressVars, streamVars, appendVars, estimateVars, resumeStateVars, findVars, awaitVars, completeVars, answer>>
    \/ RvWait /\ thread_step /\ UNCHANGED <<job, writerVars, driverVars, relevanceVars, plainVars, funcVars, progressVars, streamVars, appendVars, estimateVars, resumeStateVars, findVars, awaitVars, completeVars, answer>>
    \/ RvRead /\ thread_step /\ UNCHANGED <<job, writerVars, driverVars, relevanceVars, plainVars, funcVars, progressVars, streamVars, appendVars, estimateVars, resumeStateVars, findVars, awaitVars, completeVars, answer>>
    \/ RvClearMailbox /\ thread_step /\ UNCHANGED <<job, writerVars, driverVars, relevanceVars, plainVars, funcVars, progressVars, streamVars, appendVars, estimateVars, resumeStateVars, findVars, awaitVars, completeVars, answer>>
    \/ RvApply /\ thread_step /\ UNCHANGED <<job, writerVars, driverVars, relevanceVars, plainVars, funcVars, progressVars, streamVars, appendVars, estimateVars, resumeStateVars, findVars, awaitVars, completeVars, answer>>
    \/ RvSubmit /\ UNCHANGED <<job, writerVars, driverVars, relevanceVars, plainVars, funcVars, progressVars, streamVars, appendVars, estimateVars, resumeStateVars, findVars, awaitVars, completeVars, threadVars>>
    \/ StartProcessingFn /\ UNCHANGED <<job, writerVars, driverVars, relevanceVars, plainVars, funcVars, progressVars, streamVars, appendVars, estimateVars, resumeStateVars, findVars, awaitVars>>
    \/ StopProcessingFn /\ UNCHANGED <<job, writerVars, driverVars, relevanceVars, plainVars, funcVars, progressVars, streamVars, appendVars, estimateVars, resumeStateVars, findVars, awaitVars>>
    \/ CpNextObject /\ thread_step /\ UNCHANGED <<job, writerVars, driverVars, relevanceVars, plainVars, funcVars, progressVars, streamVars, appendVars, estimateVars, resumeStateVars, findVars, awaitVars, answer>>
    \/ FnPublish /\ thread_step /\ UNCHANGED <<job, writerVars, driverVars, relevanceVars, plainVars, funcVars, progressVars, streamVars, appendVars, estimateVars, resumeStateVars, findVars, awaitVars, completeVars, answer>>
    \/ FnClearSignal /\ thread_step /\ UNCHANGED <<job, writerVars, driverVars, relevanceVars, plainVars, funcVars, progressVars, streamVars, appendVars, estimateVars, resumeStateVars, findVars, awaitVars, completeVars, answer>>
    \/ FnWait /\ thread_step /\ UNCHANGED <<job, writerVars, driverVars, relevanceVars, plainVars, funcVars, progressVars, streamVars, appendVars, estimateVars, resumeStateVars, findVars, awaitVars, completeVars, answer>>
    \/ FnReturn /\ thread_step /\ UNCHANGED <<job, writerVars, driverVars, relevanceVars, plainVars, funcVars, progressVars, streamVars, appendVars, estimateVars, resumeStateVars, findVars, awaitVars, completeVars, answer>>
    \/ CpFinalize /\ thread_step /\ UNCHANGED <<job, writerVars, driverVars, relevanceVars, plainVars, funcVars, progressVars, streamVars, appendVars, estimateVars, resumeStateVars, findVars, awaitVars, answer>>
    \/ FnSubmit /\ UNCHANGED <<job, writerVars, driverVars, relevanceVars, plainVars, funcVars, progressVars, streamVars, appendVars, estimateVars, resumeStateVars, findVars, awaitVars, completeVars, threadVars>>
    \/ CpGetProgress /\ UNCHANGED <<job, writerVars, driverVars, relevanceVars, plainVars, funcVars, progressVars, streamVars, appendVars, estimateVars, resumeStateVars, findVars, awaitVars, threadVars>>

StartSpec == StartInit /\ [][StartNext]_vars

\* ---------------------------------------------------- claims, reviewers
\* the record under review has its label and is about to be written
Finalizing ==
    \/ job = "review_relevance" /\ rvPc = "check" /\ obj.label # << >>
    \/ job = "review_function" /\ rvPc = "finalize"

\* the automatic decision is non-null and equals the decision consumed at
\* stage 1
Consensus ==
    /\ obj.analysis_label # << >>
    /\ applied # << >>
    /\ py_eq(applied[1].value, obj.analysis_label[1])

\* C15: for a record under review with automatic decision A (possibly null),
\* the finalized label is the human decision consumed at stage 1 if A is
\* non-null and equals it, and otherwise the human decision consumed at
\* stage 2, whatever A is.
C15_ConsensusResolution ==
    Finalizing =>
        /\ applied # << >>
        /\ IF Consensus
           THEN obj.label = << applied[1].value >>
           ELSE Len(applied) >= 2 /\ obj.label = << applied[2].value >>

C15_Witness ==
    /\ Finalizing
    /\ job = "review_relevance"
    /\ obj.analysis_label = << PyInt(1) >>
    /\ Len(applied) = 2
    /\ applied[1].value = PyInt(0)
    /\ applied[2].value = PyInt(0)
    /\ obj.label = << PyInt(0) >>

\* C16: for each record under review the batch thread consumes exactly one
\* human decision when the automatic decision is non-null and equals the
\* stage-1 decision, exactly two otherwise, the k-th one at stage k; within a
\* record the stage goes 1 to final or 1 to 2 to final, never from 2 back
\* to 1.
C16_DecisionsConsumed ==
    /\ [](Finalizing =>
              /\ Len(applied) = IF Consensus THEN 1 ELSE 2
              /\ \A k \in 1..Len(applied) : applied[k].stage = k)
    /\ [][rvPc \notin {"idle", "next"} =>
              /\ obj.review_stage = 2 => obj'.review_stage \in {2, 0}
              /\ obj.review_stage = 0 => obj'.review_stage = 0
              /\ Len(applied') >= Len(applied)]_vars

C16_Witness ==
    /\ Finalizing
    /\ job = "review_function"
    /\ obj.analysis_label = << PyInt(1) >>
    /\ Len(applied) = 1
    /\ applied[1].value = PyBool(TRUE)
    /\ obj.label = << PyBool(TRUE) >>

\* C17: function-label reviewer: when the batch thread takes a record whose
\* relevance_label is -1 or 0 it writes it with function_label 0 and goes on
\* to the next record; it does not publish the record (current_object,
\* decision_stage, awaiting_user_decision), does not clear the signal and
\* consumes no decision.
C17_ExemptNoReview ==
    [][(/\ job = "review_function"
        /\ rvPc = "next"
        /\ rvPos < Len(rvData)
        /\ rvData[rvPos + 1].relevance_label \in {-1, 0}
        /\ (rvPc' # rvPc \/ rvPos' # rvPos))
       => /\ rvOut' = Append(rvOut, PyInt(0))
          /\ rvPos' = rvPos + 1
          /\ rvPc' = "next"
          /\ applied' = << >>
          /\ UNCHANGED <<current_object, decision_stage,
                         awaiting_user_decision, processing_paused,
                         user_decision>>]_vars

C17_Witness ==
    /\ job = "review_function"
    /\ Len(rvData) = 2
    /\ rvData[1].relevance_label = 0
    /\ rvData[2].relevance_label = -1
    /\ rvPos = 2
    /\ rvOut = << PyInt(0), PyInt(0) >>
    /\ current_object = << >>
    /\ user_decision = << >>
    /\ ~processing_paused

\* C18: relevance reviewer: every decision the batch thread applies to a
\* stage of a record was submitted while that stage of that record was under
\* review; a decision submitted earlier (before the run, or during an earlier
\* record or stage) is never applied to a later stage or record.
C18_OnlyAwaitedDecisions ==
    job = "review_relevance" =>
        \A k \in 1..Len(applied) : applied[k].fresh

\* C19: while the batch thread is blocked waiting for a human decision it
\* holds no open handle on an output file.
C19_NoHandleWhileBlocked ==
    rvPc = "wait" => ~out_f

\* C34: function-label reviewer: a decision submitted after the batch
\* thread has published a stage of a record is delivered: once one
\* set_user_decision call has begun since the publication, the batch thread
\* returns from the wait of that stage unless a further call is begun.
C34_SubmittedDecisionDelivered ==
    (Published /\ submitted = 1) ~> (~Published \/ submitted = 2)

\* C35: function-label reviewer: no value _await_user_decision returns is
\* the empty mailbox value None, and no function_label written for a record
\* is null.
C35_ReturnedValueWasSubmitted ==
    /\ \A k \in 1..Len(applied) : applied[k].value # PyNone
    /\ \A k \in 1..Len(rvOut) : rvOut[k] # PyNone

\* C36: relevance reviewer: every relevance_label finalized after human
\* review, and every one written, is -1, 0 or 1, whatever boolean, integer
\* or string decision is submitted.
C36_LabelInRange ==
    job = "review_relevance" =>
        /\ Finalizing => obj.label[1].n \in {-1, 0, 1}
        /\ \A k \in 1..Len(rvOut) : rvOut[k].n \in {-1, 0, 1}

\* C37: function-label web review: the completion flag of the progress
\* endpoint is true only once the batch thread has finalized every record;
\* it is never true while a record waits for, or has yet to be given, a
\* human decision.
C37_CompleteOnlyWhenAllFinalized ==
    (processing_complete \/ reported = << TRUE >>)
        => rvPos = Len(rvData)

\* C39: relevance reviewer: once request_stop_processing has been called
\* while the batch thread is processing, the thread ends with is_processing
\* false, even from its wait for a decision, and from the call on it assigns
\* no label to the record under review.
C39_StopEndsThread ==
    /\ (stop_processing /\ is_processing)
           ~> (rvPc = "idle" /\ ~is_processing)
    /\ [][(stop_processing /\ UnderReview) => obj'.label = obj.label]_vars

\* C40: at most one batch thread is alive at any time, whatever start and
\* stop requests arrive; while a thread is alive no step starts another one,
\* and a start request answered "already in progress" leaves the number of
\* threads, the review state and the progress state as they were.
C40_OneBatchThread ==
    /\ [](alive <= 1)
    /\ [][alive > 0 => alive' <= alive]_vars
    /\ [][(/\ answer' = "Processing already in progress"
           /\ answer' # answer)
          => /\ alive > 0
             /\ UNCHANGED <<alive, reviewVars, completeVars>>]_vars

\* a start request was refused while the thread of a second run, started
\* after a stop, waits for a decision
C40_Witness ==
    /\ answer = "Processing already in progress"
    /\ alive = 1
    /\ rvRuns = 2
    /\ rvPc = "wait"
    /\ job = "review_relevance"

\* C20: a submitted payload that is a string other than true/false (in any
\* case) and not an integer literal is answered with an error and changes
\* neither the mailbox, the signal nor any field of the record under review;
\* the batch thread stays where it is (blocked if it was blocked).
C20_MalformedPayloadRejected ==
    [][(/\ response' # response
        /\ response'.type = "str"
        /\ response'.text \notin {"true", "false", "TRUE", "FALSE", "True",
                                  "False", "-1", "0", "1"})
       => /\ response'.status = "error"
          /\ UNCHANGED <<user_decision, processing_paused,
                         awaiting_user_decision, current_object,
                         decision_stage, obj, applied, rvPc, rvPos,
                         rvOut>>]_vars

C20_Witness ==
    /\ job = "review_function"
    /\ response.status = "error"
    /\ response.text = "abc"
    /\ rvPc = "wait"
    /\ ~processing_paused
    /\ awaiting_user_decision
    /\ user_decision = << >>
    /\ obj.review_stage = 2

\* ------------------------------------------------------- progress tracker
\* the values a progress field takes
ProgressValues == 0..MaxProgress

\* variant of the lock test: no mutual exclusion
lock_free_always(l) == TRUE

\* "with self.lock": the lock can be taken
lock_free(l) == l = "none"

\* Progress.update: "with self.lock" is entered with the arguments of the call
UpdateAcquire ==
    /\ job = "progress"
    /\ upPc = 0
    /\ lock_free(lock)
    /\ \E fp \in ProgressValues, tp \in ProgressValues,
          top \in {<< >>} \cup {<<v>> : v \in ProgressValues} :
           upArgs' = progress_args(fp, tp, top)
    /\ lock' = "update"
    /\ upPc' = 1
    /\ UNCHANGED <<progress, snapshot, committed>>

\* Progress.update: one assignment of the with block; total_objects_processed
\* is left alone when the argument is None
UpdateWrite ==
    /\ job = "progress"
    /\ upPc \in 1..3
    /\ progress' =
           CASE upPc = 1 ->
                  [progress EXCEPT !.file_progress = upArgs.file_progress]
             [] upPc = 2 ->
                  [progress EXCEPT !.total_progress = upArgs.total_progress]
             [] OTHER ->
                  IF upArgs.total_objects_processed = << >>
                  THEN progress
                  ELSE [progress EXCEPT !.total_objects_processed =
                                            upArgs.total_objects_processed[1]]
    /\ upPc' = upPc + 1
    /\ UNCHANGED <<lock, upArgs, snapshot, committed>>

\* Progress.update: the with block is left
UpdateRelease ==
    /\ job = "progress"
    /\ upPc = 4
    /\ lock' = "none"
    /\ committed' = progress
    /\ upPc' = 5
    /\ UNCHANGED <<progress, upArgs, snapshot>>

\* Progress.update: "logger.debug(f'Progress updated: {self.get()}')"
UpdateLog ==
    /\ job = "progress"
    /\ upPc = 5
    /\ lock_free(lock)
    /\ upPc' = 0
    /\ UNCHANGED <<progress, lock, upArgs, snapshot, committed>>

\* Progress.get, called by GET /progress: the fields are read under the lock
ProgressGet ==
    /\ job = "progress"
    /\ lock_free(lock)
    /\ snapshot' = << [seen |-> progress, last |-> committed] >>
    /\ UNCHANGED <<progress, lock, upPc, upArgs, committed>>

ProgressInit ==
    /\ job = "progress"
    /\ WriterStart
    /\ DriverStart(1, DEFAULT_MAX_RETRIES)
    /\ PlainStart
    /\ FuncStartState
    /\ ReviewStartState(<< >>)
    /\ ToolStart

ProgressNext ==
    \/ UpdateAcquire /\ UNCHANGED <<job, writerVars, driverVars, relevanceVars, plainVars, funcVars, reviewVars, streamVars, appendVars, estimateVars, resumeStateVars, utilVars>>
    \/ UpdateWrite /\ UNCHANGED <<job, writerVars, driverVars, relevanceVars, plainVars, funcVars, reviewVars, streamVars, appendVars, estimateVars, resumeStateVars, utilVars>>
    \/ UpdateRelease /\ UNCHANGED <<job, writerVars, driverVars, relevanceVars, plainVars, funcVars, reviewVars, streamVars, appendVars, estimateVars, resumeStateVars, utilVars>>
    \/ UpdateLog /\ UNCHANGED <<job, writerVars, driverVars, relevanceVars, plainVars, funcVars, reviewVars, streamVars, appendVars, estimateVars, resumeStateVars, utilVars>>
    \/ ProgressGet /\ UNCHANGED <<job, writerVars, driverVars, relevanceVars, plainVars, funcVars, reviewVars, streamVars, appendVars, estimateVars, resumeStateVars, utilVars>>

ProgressSpec == ProgressInit /\ [][ProgressNext]_vars

\* C21: every progress snapshot returned to a polling endpoint is the state
\* left by the last complete update call (or the initial state): it never
\* holds fields of an update that is only partly applied.
C21_NoTornSnapshot ==
    snapshot # << >> => snapshot[1].seen = snapshot[1].last

C21_Witness ==
    /\ snapshot # << >>
    /\ snapshot[1].seen = progress_args(1, 1, 1)
    /\ upPc = 2
    /\ progress = progress_args(0, 1, 1)

\* ------------------------------------------------------- streaming reader
\* str.lstrip() on file tokens
RECURSIVE lstrip(_)
lstrip(content) ==
    IF content # << >> /\ IsWhitespace(content[1])
    THEN lstrip(Tail(content))
    ELSE content

\* the while loop of stream_json_data over the rest of the content, acc the
\* objects yielded so far: decoder.raw_decode takes a value at the head of
\* the content and raises "Expecting value" on anything else
RECURSIVE stream_loop(_, _)
stream_loop(content, acc) ==
    IF content = << >>
    THEN [error |-> "none", data |-> acc]
    ELSE IF content[1].ch = "{"
    THEN LET past == lstrip(Tail(content))
             rest == IF past # << >> /\ past[1].ch = ","
                     THEN lstrip(Tail(past))
                     ELSE past
             yielded == Append(acc, content[1].obj[1])
         IN  IF rest # << >> /\ rest[1].ch = "]"
             THEN [error |-> "none", data |-> yielded]
             ELSE stream_loop(rest, yielded)
    ELSE IF content[1].ch = "]"
    THEN [error |-> "none", data |-> acc]
    ELSE [error |-> "JSONDecodeError", data |-> acc]

\* stream_json_data(file_path) on a file with this content: the objects
\* yielded and the exception that ended the generator, if any
stream_json_data(content) ==
    IF content = << >> \/ content[1].ch # "["
    THEN [error |-> "ValueError", data |-> << >>]
    ELSE stream_loop(lstrip(Tail(content)), << >>)

\* the objects an input file can hold
StreamEntries == { [id |-> i] : i \in 1..2 }

\* the tokens of an input file
StreamTokens ==
    {Ch("["), Ch("]"), Ch(","), Ch("\n")}
        \cup { json_dumps(e) : e \in StreamEntries }

\* list(stream_json_data(path)) next to json.load of the same file
StreamRun ==
    /\ job = "stream"
    /\ stream_result = << >>
    /\ stream_result' = << stream_json_data(file_text) >>
    /\ UNCHANGED file_text

StreamInit ==
    /\ job = "stream"
    /\ WriterStart
    /\ DriverStart(1, DEFAULT_MAX_RETRIES)
    /\ PlainStart
    /\ FuncStartState
    /\ ReviewStartState(<< >>)
    /\ ProgressStart
    /\ AppendStart
    /\ EstimateStart
    /\ ResumeStateStart
    /\ UtilStart
    /\ file_text \in SeqsUpTo(StreamTokens, MaxText)
    /\ stream_result = << >>

StreamNext ==
    \/ StreamRun /\ UNCHANGED <<job, writerVars, driverVars, relevanceVars, plainVars, funcVars, reviewVars, progressVars, appendVars, estimateVars, resumeStateVars, utilVars>>

StreamSpec == StreamInit /\ [][StreamNext]_vars

\* C22: for a file that a full parse accepts as a JSON array (empty array
\* and whitespace before or after the array included) the streaming reader
\* raises nothing and yields the parsed list, element for element.
C22_StreamEqualsParse ==
    (stream_result # << >> /\ json_load(file_text).ok)
        => /\ stream_result[1].error = "none"
           /\ stream_result[1].data = json_load(file_text).data

\* C23: for a file that begins with [ and that a full parse rejects, the
\* streaming reader ends with a decode error.
C23_MalformedSurfaces ==
    (/\ stream_result # << >>
     /\ file_text # << >>
     /\ file_text[1].ch = "["
     /\ ~json_load(file_text).ok)
        => stream_result[1].error = "JSONDecodeError"

\* ------------------------------------------- read-modify-write writer
\* json.dump(data, f, indent=4) of a list, as file tokens
RECURSIVE dump_items(_)
dump_items(data) ==
    IF Len(data) = 1
    THEN <<Ch("\n"), json_dumps(data[1]), Ch("\n")>>
    ELSE <<Ch("\n"), json_dumps(data[1]), Ch(",")>> \o dump_items(Tail(data))

json_dump(data) ==
    IF data = << >>
    THEN <<Ch("["), Ch("]")>>
    ELSE <<Ch("[")>> \o dump_items(data) \o <<Ch("]")>>

\* _load_existing_data(output_file): the parsed list, or [] when the file is
\* absent, empty or does not parse (the JSONDecodeError is logged only)
load_existing_data(f) ==
    IF path_exists(f) /\ getsize(f) > 0
    THEN IF json_load(f[1]).ok THEN json_load(f[1]).data ELSE << >>
    ELSE << >>

\* append_to_output(output_file, entry) when the write goes through: load,
\* append, write back, return True
AppendCall ==
    /\ job = "append"
    /\ oCalls < MaxOutCalls
    /\ oFile' = << json_dump(Append(load_existing_data(oFile), oCalls + 1)) >>
    /\ oRet' = "true"
    /\ oCalls' = oCalls + 1

\* append_to_output when _write_data_to_file raises inside json.dump (False
\* is returned) or the process is killed there: open(output_file, 'w') has
\* truncated the file and a proper prefix of the dump is in it
AppendWriteCut ==
    /\ job = "append"
    /\ oCalls < MaxOutCalls
    /\ \E killed \in BOOLEAN :
           oRet' = IF killed THEN "killed" ELSE "false"
    /\ LET data == Append(load_existing_data(oFile), oCalls + 1)
           full == json_dump(data)
       IN  \E n \in 0..(Len(full) - 1) : oFile' = << SubSeq(full, 1, n) >>
    /\ oCalls' = oCalls + 1

AppendInit ==
    /\ job = "append"
    /\ WriterStart
    /\ DriverStart(1, DEFAULT_MAX_RETRIES)
    /\ PlainStart
    /\ FuncStartState
    /\ ReviewStartState(<< >>)
    /\ ToolStart

AppendNext ==
    \/ AppendCall /\ UNCHANGED <<job, writerVars, driverVars, relevanceVars, plainVars, funcVars, reviewVars, progressVars, streamVars, estimateVars, resumeStateVars, utilVars>>
    \/ AppendWriteCut /\ UNCHANGED <<job, writerVars, driverVars, relevanceVars, plainVars, funcVars, reviewVars, progressVars, streamVars, estimateVars, resumeStateVars, utilVars>>

AppendSpec == AppendInit /\ [][AppendNext]_vars

\* C24: a call of append_to_output that returns True on a file that was not
\* empty leaves a file that parses and holds every element the file held
\* before the call, in order, followed by the new record; on a file it cannot
\* read or parse it does not return True.
C24_AppendPreserves ==
    [][(oCalls' = oCalls + 1 /\ oRet' = "true")
       => /\ json_load(oFile'[1]).ok
          /\ IF path_exists(oFile) /\ getsize(oFile) > 0
             THEN /\ json_load(oFile[1]).ok
                  /\ json_load(oFile'[1]).data =
                         Append(json_load(oFile[1]).data, oCalls + 1)
             ELSE json_load(oFile'[1]).data = << oCalls + 1 >>]_vars

\* ------------------------------------------------ get_estimates alone
\* the times file a new estimator can find: none, or a list of times
EstimateHistories ==
    {<< >>} \cup { << h >> : h \in SeqsUpTo(Durations, MaxRecords) }

\* TimeEstimator(file_name, total_entries, log_dir, resume_index)
EstNew ==
    /\ job = "estimate"
    /\ te = << >>
    /\ \E resume_index \in 0..MaxRecords :
           te' = << TimeEstimator(total, resume_index, times_file) >>
    /\ UNCHANGED estimates

\* time_estimator.get_estimates()
EstGet ==
    /\ job = "estimate"
    /\ te # << >>
    /\ estimates = << >>
    /\ \E elapsed \in 0..MaxElapsed :
           estimates' = << get_estimates(te[1], elapsed) >>
    /\ UNCHANGED te

\* a file of 0..MaxRecords entries with or without a timing history
EstimateInit ==
    /\ job = "estimate"
    /\ WriterStart
    /\ PlainStart
    /\ ReviewStartState(<< >>)
    /\ ToolStart
    /\ \E n \in 0..MaxRecords : DriverStart(n, DEFAULT_MAX_RETRIES)
    /\ gResume = << >>
    /\ gOutput = << >>
    /\ gPc = "idle"
    /\ gIdx = 0
    /\ current_index = 0
    /\ gRuns = 0
    /\ times_file \in EstimateHistories
    /\ processing_times = << >>

EstimateNext ==
    \/ EstNew /\ UNCHANGED <<job, writerVars, driverVars, relevanceVars, plainVars, funcVars, reviewVars, progressVars, streamVars, appendVars, resumeStateVars, utilVars>>
    \/ EstGet /\ UNCHANGED <<job, writerVars, driverVars, relevanceVars, plainVars, funcVars, reviewVars, progressVars, streamVars, appendVars, resumeStateVars, utilVars>>

EstimateSpec == EstimateInit /\ [][EstimateNext]_vars

\* every duration of the estimate is 0 and the completion time is unknown
ZeroValued(e) ==
    /\ e.avg_time_per_entry.num = 0
    /\ e.median_time_per_entry.num = 0
    /\ e.weighted_avg_time.num = 0
    /\ e.std_dev.num = 0
    /\ e.elapsed_time.num = 0
    /\ e.estimated_remaining_time.num = 0
    /\ e.estimated_total_time.num = 0
    /\ e.entries_per_minute.num = 0
    /\ e.estimated_completion_time = << >>

\* C28: get_estimates called on an estimator whose timing history is empty
\* raises nothing and returns the zero-valued estimate, whatever total_entries
\* (0 included) and resume index the estimator was built with.
C28_EmptyHistoryZeroEstimate ==
    (estimates # << >> /\ te[1].processing_times = << >>)
        => /\ estimates[1].raised = "none"
           /\ ZeroValued(estimates[1].value[1])

\* ------------------------------------------------- resume state alone
\* An entry is a dict whose keys id, sub_id, code_id and function_id may be
\* missing (entry.get gives None, << >>). The resume point file holds what
\* save_state dumps; its key time_estimates is optional.

\* the key save_state keeps of an entry
last_processed_key(entry) ==
    [id |-> entry.id, sub_id |-> entry.sub_id, code_id |-> entry.code_id,
     function_id |-> entry.function_id]

\* ResumeState.__init__
ResumeState_init ==
    [last_processed |-> << >>, index |-> 0, total |-> 0,
     progress_percentage |-> 0, completed |-> FALSE,
     failed_entries |-> << >>, time_estimates |-> << >>]

\* "if time_estimates:" (None is falsy, the dicts of get_estimates are not)
truthy(time_estimates) == time_estimates # << >>

\* ResumeState.save_state(file_name, entry, index, total, time_estimates,
\* completed) on the object rs, when nothing raises: the file it writes
ResumeState_save_state(rs, entry, index, total_entries, time_estimates, completed) ==
    << [last_processed |-> last_processed_key(entry),
        index |-> index,
        total |-> total_entries,
        progress_percentage |->
            IF total_entries > 0
            THEN (2 * index * 10000 + total_entries) \div (2 * total_entries)
            ELSE 0,
        completed |-> completed,
        failed_entries |-> rs.failed_entries,
        time_estimates |->
            IF truthy(time_estimates) THEN time_estimates ELSE << >>] >>

\* a load that reads the position but not the time estimates
ResumeState_load_state_position(rs, f) ==
    IF ~path_exists(f) THEN [ok |-> FALSE, rs |-> rs]
    ELSE [ok |-> TRUE,
          rs |-> [rs EXCEPT !.last_processed = << f[1].last_processed >>,
                            !.index = f[1].index,
                            !.total = f[1].total]]

\* ResumeState.load_state(file_name) on the object rs: (returned, object)
ResumeState_load_state(rs, f) ==
    IF ~path_exists(f) THEN [ok |-> FALSE, rs |-> rs]
    ELSE [ok |-> TRUE,
          rs |-> [last_processed |-> << f[1].last_processed >>,
                  index |-> f[1].index,
                  total |-> f[1].total,
                  progress_percentage |-> f[1].progress_percentage,
                  completed |-> f[1].completed,
                  failed_entries |-> f[1].failed_entries,
                  time_estimates |-> f[1].time_estimates]]

\* entries handed to save_state: with and without a function_id
RsEntries ==
    { [id |-> << i >>, sub_id |-> << 1 >>, code_id |-> << 1 >>,
       function_id |-> f] : i \in 1..MaxRecords, f \in {<< >>, << 1 >>} }

\* time estimates handed to save_state: None, the estimate of an empty
\* history, an estimate of a measured history
RsEstimates ==
    { << >>,
      get_estimates(TimeEstimator(2, 1, << >>), 0).value,
      get_estimates(TimeEstimator(2, 1, << <<1, 2>> >>), 1).value }

\* ResumeState(log_dir).save_state(file_name, entry, index, total,
\* time_estimates, completed) returns True
RsSave ==
    /\ job = "resume_state"
    /\ rsSaves < MaxSaves
    /\ rsSaves' = rsSaves + 1
    /\ \E entry \in RsEntries, index \in 0..MaxRecords,
          total_entries \in 0..MaxRecords, time_estimates \in RsEstimates,
          completed \in BOOLEAN :
               /\ rsFile' = ResumeState_save_state(ResumeState_init, entry,
                                 index, total_entries, time_estimates,
                                 completed)
               /\ rsArgs' = << [entry |-> entry, index |-> index,
                                total |-> total_entries,
                                time_estimates |-> time_estimates,
                                completed |-> completed] >>
    /\ rsPc' = "saved"
    /\ rsObj' = << >>

\* save_state returns False: open() raised and the file is as it was
RsSaveFails ==
    /\ job = "resume_state"
    /\ rsSaves < MaxSaves
    /\ rsSaves' = rsSaves + 1
    /\ rsPc' = "failed"
    /\ rsObj' = << >>
    /\ UNCHANGED <<rsFile, rsArgs>>

\* ResumeState(log_dir).load_state(file_name)
RsLoad ==
    /\ job = "resume_state"
    /\ rsPc \in {"saved", "failed", "cleared", "clear_failed"}
    /\ LET r == ResumeState_load_state(ResumeState_init, rsFile)
       IN  /\ rsObj' = << r >>
           /\ rsPc' = CASE rsPc = "saved" -> "loaded"
                         [] rsPc = "cleared" -> "cleared_loaded"
                         [] OTHER -> "reloaded"
    /\ UNCHANGED <<rsFile, rsArgs, rsSaves>>

\* a clear that answers True and leaves the file where it is
ResumeState_clear_state_kept(f) == f

\* ResumeState.clear_state(file_name) when nothing raises: the resume file
\* afterwards ("if os.path.exists(resume_file): os.remove(resume_file)");
\* True is returned whether or not the file was there
ResumeState_clear_state(f) == << >>

\* ResumeState(log_dir).clear_state(file_name) returns True; the object is
\* a new one, so no field of it is reset
RsClear ==
    /\ job = "resume_state"
    /\ rsPc \in {"saved", "failed", "loaded", "reloaded"}
    /\ rsFile' = ResumeState_clear_state(rsFile)
    /\ rsPc' = "cleared"
    /\ rsObj' = << >>
    /\ UNCHANGED <<rsArgs, rsSaves>>

\* clear_state returns False: os.remove raised and the file is as it was
RsClearFails ==
    /\ job = "resume_state"
    /\ rsPc \in {"saved", "loaded"}
    /\ path_exists(rsFile)
    /\ rsPc' = "clear_failed"
    /\ rsObj' = << >>
    /\ UNCHANGED <<rsFile, rsArgs, rsSaves>>

ResumeStateInit ==
    /\ job = "resume_state"
    /\ WriterStart
    /\ PlainStart
    /\ FuncStartState
    /\ ReviewStartState(<< >>)
    /\ ToolStart
    /\ DriverStart(1, DEFAULT_MAX_RETRIES)

ResumeStateNext ==
    \/ RsSave /\ UNCHANGED <<job, writerVars, driverVars, relevanceVars, plainVars, funcVars, reviewVars, progressVars, streamVars, appendVars, estimateVars, utilVars>>
    \/ RsSaveFails /\ UNCHANGED <<job, writerVars, driverVars, relevanceVars, plainVars, funcVars, reviewVars, progressVars, streamVars, appendVars, estimateVars, utilVars>>
    \/ RsLoad /\ UNCHANGED <<job, writerVars, driverVars, relevanceVars, plainVars, funcVars, reviewVars, progressVars, streamVars, appendVars, estimateVars, utilVars>>
    \/ RsClear /\ UNCHANGED <<job, writerVars, driverVars, relevanceVars, plainVars, funcVars, reviewVars, progressVars, streamVars, appendVars, estimateVars, utilVars>>
    \/ RsClearFails /\ UNCHANGED <<job, writerVars, driverVars, relevanceVars, plainVars, funcVars, reviewVars, progressVars, streamVars, appendVars, estimateVars, utilVars>>

ResumeStateSpec == ResumeStateInit /\ [][ResumeStateNext]_vars

\* C30: once save_state has succeeded, load_state on a new ResumeState
\* succeeds and yields the saved last-processed key (id, sub_id, code_id,
\* function_id), index, total, completed flag and time estimates.
C30_SaveLoadRoundTrip ==
    rsPc = "loaded"
        => /\ rsObj[1].ok
           /\ rsObj[1].rs.last_processed
                  = << last_processed_key(rsArgs[1].entry) >>
           /\ rsObj[1].rs.index = rsArgs[1].index
           /\ rsObj[1].rs.total = rsArgs[1].total
           /\ rsObj[1].rs.completed = rsArgs[1].completed
           /\ rsObj[1].rs.time_estimates = rsArgs[1].time_estimates

\* a second save with a measured estimate, for an entry without function_id
\* and a file of which index = total, has been loaded back
C30_Witness ==
    /\ rsPc = "loaded"
    /\ rsSaves = 2
    /\ rsObj[1].ok
    /\ rsObj[1].rs.last_processed[1].function_id = << >>
    /\ rsObj[1].rs.index = 2
    /\ rsObj[1].rs.completed
    /\ rsObj[1].rs.time_estimates # << >>
    /\ rsObj[1].rs.time_estimates[1].avg_time_per_entry.num > 0

\* C33: after clear_state(file) has succeeded, load_state(file) on a new
\* ResumeState reports not-found, and that object holds no history: index 0,
\* no last-processed key, no failed entries, no time estimates, not
\* completed.
C33_ClearThenLoadNotFound ==
    rsPc = "cleared_loaded"
        => /\ ~rsObj[1].ok
           /\ rsObj[1].rs.index = 0
           /\ rsObj[1].rs.last_processed = << >>
           /\ rsObj[1].rs.failed_entries = << >>
           /\ rsObj[1].rs.time_estimates = << >>
           /\ ~rsObj[1].rs.completed

\* a state that had been saved and loaded back was cleared, then loaded
C33_Witness ==
    /\ rsPc = "cleared_loaded"
    /\ rsSaves >= 1
    /\ rsArgs # << >>
    /\ rsArgs[1].index >= 1
    /\ ~rsObj[1].ok

\* ------------------------------------------- find_resume_index alone
\* the entry matches the last-processed key: all four entry.get values agree
key_matches(entry, last_processed) ==
    /\ entry.id = last_processed.id
    /\ entry.sub_id = last_processed.sub_id
    /\ entry.code_id = last_processed.code_id
    /\ entry.function_id = last_processed.function_id

\* a scan that answers the index of the matching entry itself
ResumeState_find_resume_index_at(rs, ground_truth) ==
    IF rs.last_processed = << >> THEN 0
    ELSE IF \E i \in DOMAIN ground_truth :
                key_matches(ground_truth[i], rs.last_processed[1])
         THEN (CHOOSE i \in DOMAIN ground_truth :
                  /\ key_matches(ground_truth[i], rs.last_processed[1])
                  /\ \A j \in 1..(i - 1) :
                         ~key_matches(ground_truth[j], rs.last_processed[1]))
              - 1
         ELSE 0

\* ResumeState.find_resume_index(ground_truth_data): "if not
\* self.last_processed: return 0", then idx + 1 for the first entry (at
\* 0-based idx) that matches, 0 after the loop
ResumeState_find_resume_index(rs, ground_truth) ==
    IF rs.last_processed = << >> THEN 0
    ELSE IF \E i \in DOMAIN ground_truth :
                key_matches(ground_truth[i], rs.last_processed[1])
         THEN CHOOSE i \in DOMAIN ground_truth :
                  /\ key_matches(ground_truth[i], rs.last_processed[1])
                  /\ \A j \in 1..(i - 1) :
                         ~key_matches(ground_truth[j], rs.last_processed[1])
         ELSE 0

\* the ResumeState objects find_resume_index is called on: a new one whose
\* load_state found no file, or one that loaded what save_state wrote
FindObjects ==
    { ResumeState_load_state(ResumeState_init, << >>) }
        \cup { ResumeState_load_state(ResumeState_init,
                    ResumeState_save_state(ResumeState_init, e, 1, 2, << >>,
                                           FALSE)) : e \in RsEntries }

\* resume_state.find_resume_index(ground_truth_data)
RsFind ==
    /\ job = "find"
    /\ rsFound = << >>
    /\ rsFound' = << ResumeState_find_resume_index(rsObj[1].rs,
                                                   ground_truth_data) >>
    /\ UNCHANGED <<resumeStateVars, ground_truth_data>>

\* a ground truth of up to MaxRecords entries and a ResumeState object
FindInit ==
    /\ job = "find"
    /\ WriterStart
    /\ PlainStart
    /\ FuncStartState
    /\ ReviewStartState(<< >>)
    /\ ProgressStart
    /\ StreamStart
    /\ AppendStart
    /\ EstimateStart
    /\ DriverStart(1, DEFAULT_MAX_RETRIES)
    /\ rsFile = << >>
    /\ rsObj \in { << o >> : o \in FindObjects }
    /\ rsArgs = << >>
    /\ rsPc = "idle"
    /\ rsSaves = 0
    /\ ground_truth_data \in SeqsUpTo(RsEntries, MaxRecords)
    /\ rsFound = << >>
    /\ AwaitStart
    /\ CompleteStart
    /\ ThreadStart

FindNext ==
    \/ RsFind /\ UNCHANGED <<job, writerVars, driverVars, relevanceVars, plainVars, funcVars, reviewVars, progressVars, streamVars, appendVars, estimateVars, awaitVars, completeVars, threadVars>>

FindSpec == FindInit /\ [][FindNext]_vars

\* positions (1-based) of the ground-truth entries with the loaded key
Matches ==
    IF rsObj[1].ok
    THEN { i \in DOMAIN ground_truth_data :
             last_processed_key(ground_truth_data[i])
                 = rsObj[1].rs.last_processed[1] }
    ELSE {}

\* C31: find_resume_index returns the position immediately after the first
\* ground-truth entry whose (id, sub_id, code_id, function_id) equals the
\* loaded last-processed key (its 1-based position), and 0 when no entry
\* matches or no state was loaded.
C31_FindResumeIndex ==
    rsFound # << >>
        => IF Matches = {} THEN rsFound[1] = 0
           ELSE /\ rsFound[1] \in Matches
                /\ \A i \in Matches : rsFound[1] <= i

\* the key of the second of two entries was loaded and found
C31_Witness ==
    /\ rsFound = << 2 >>
    /\ Len(ground_truth_data) = 2
    /\ rsObj[1].ok
    /\ Matches = {2}

\* ------------------------------------------------------ writer in isolation
\* entries handed to the writer: a model row or the sentinel of a given up record
WriterEntries ==
    { [id |-> k, response |-> r, total_duration |-> IF r = "" THEN 0 ELSE 1] :
          k \in 1..MaxEntryKinds, r \in {"", "llm"} }

\* the result file is absent, or exists with no bytes
WriterInit ==
    /\ wVariant \in {"model", "relevance"}
    /\ wFile \in { << >>, << << >> >> }
    /\ wAppended = << >>
    /\ job = "writer"
    /\ DriverStart(1, DEFAULT_MAX_RETRIES)
    /\ PlainStart
    /\ FuncStartState
    /\ ReviewStartState(<< >>)
    /\ ToolStart

\* one call write_to_json(new_entry, ...)
WriterAppend ==
    /\ Len(wAppended) < MaxAppends
    /\ \E e \in WriterEntries :
          LET w == IF wVariant = "model"
                   THEN write_to_json(e, wFile)
                   ELSE write_to_json_file(e, wFile)
          IN  /\ wFile' = w.file
              /\ wAppended' = IF w.raised THEN wAppended ELSE Append(wAppended, e)
    /\ UNCHANGED <<wVariant, job, driverVars, relevanceVars, plainVars, funcVars, reviewVars, toolVars>>

WriterNext == WriterAppend

WriterSpec == WriterInit /\ [][WriterNext]_vars

\* C10: starting from an absent or empty result file, after any sequence of
\* append calls (zero included: then the file is still absent or empty) the
\* file parses as a JSON array holding exactly the records of the successful
\* calls, in call order.
C10_WriterValid ==
    IF wAppended = << >>
    THEN ~path_exists(wFile) \/ getsize(wFile) = 0
    ELSE /\ path_exists(wFile)
         /\ json_load(wFile[1]).ok
         /\ json_load(wFile[1]).data = wAppended

C10_Witness ==
    /\ Len(wAppended) = MaxAppends
    /\ wAppended[1].id # wAppended[2].id
    /\ wAppended[2].response = ""
    /\ wAppended[3].response = "llm"

====
